---- MODULE Spec2Model ----
(***************************************************************************)
(* A model of the RV25J pipeline: the staged record files handled by the   *)
(* verification editor (Toml_Verify_Edit.py), the CRS factory and the      *)
(* coordinate transformer (ParcelCadastre.py) and the table extractor and  *)
(* raw-stage writer (OCR_RV25j_Process.py), and the image panel with its   *)
(* region of interest (ImageSelect.py).                                    *)
(*                                                                         *)
(* Each component has its own specification over its own variables; the    *)
(* variables of the other components keep their initial value.             *)
(***************************************************************************)
EXTENDS Integers, Sequences, FiniteSets, TLC

VARIABLES
    \* ---- record store and verification editor (Toml_Verify_Edit.py)
    rawFile,        \* doc -> text of <doc>_OCR.toml, or NoFile
    editFile,       \* doc -> text of <doc>_OCRedit.toml, or NoFile
    curDoc,         \* current_image_path: a doc, or NoDoc
    editState,      \* state of edit_ocr_editor: "normal" or "disabled"
    rawText,        \* text shown by raw_ocr_editor
    editText,       \* text shown by edit_ocr_editor
    storeLog,       \* the last store operation and what it found on disk
    \* ---- CRS factory and coordinate transformer (ParcelCadastre.py)
    fac,            \* the CRSFactory: its four caches and the objects built
    crsLog,         \* the last factory request and the first answer per key
    \* ---- numeric cleaning (OCR_RV25j_Process.safe_float)
    sfIn,           \* the argument of safe_float
    sfOut,          \* its result, or NotCalled
    \* ---- table extraction and raw-stage writer (OCR_RV25j_Process.py)
    md,             \* the markup of the document: a table, or none
    exPc,           \* where process() stands for the document
    df,             \* the frame parse_markdown_table returned
    toml,           \* the raw-stage record write_toml wrote, or NoRecord
    \* ---- a run of the extraction script (OCR_RV25j_Process.main)
    proc,           \* the run: its config, its documents, how far it is
    \* ---- a run of the cadastre script (ParcelCadastre.main)
    cad,            \* the run: its config, the folder, the table, the output
    \* ---- the image panel and its region of interest (ImageSelect.py)
    roi,            \* the panel: image, scale, drag, selection, saved files
    \* ---- the image range filter (RV25jProcessor.filter_images)
    rng             \* a call: the images, the range text, the result

storeVars == <<rawFile, editFile, curDoc, editState, rawText, editText, storeLog>>
crsVars == <<fac, crsLog>>
floatVars == <<sfIn, sfOut>>
exVars == <<md, exPc, df, toml>>
procVars == <<proc>>
cadVars == <<cad>>
roiVars == <<roi>>
rngVars == <<rng>>
vars == <<storeVars, crsVars, floatVars, exVars, procVars, cadVars, roiVars, rngVars>>

\* What an operation of one component leaves alone.
notStore == <<crsVars, floatVars, exVars, procVars, cadVars, roiVars, rngVars>>
notCrs == <<storeVars, floatVars, exVars, procVars, cadVars, roiVars, rngVars>>
notFloat == <<storeVars, crsVars, exVars, procVars, cadVars, roiVars, rngVars>>
notEx == <<storeVars, crsVars, floatVars, procVars, cadVars, roiVars, rngVars>>
notProc == <<storeVars, crsVars, floatVars, exVars, cadVars, roiVars, rngVars>>
notCad == <<storeVars, crsVars, floatVars, exVars, procVars, roiVars, rngVars>>
notRoi == <<storeVars, crsVars, floatVars, exVars, procVars, cadVars, rngVars>>
notRng == <<storeVars, crsVars, floatVars, exVars, procVars, cadVars, roiVars>>

-----------------------------------------------------------------------------
(***************************************************************************)
(* Record store: the raw stage, <doc>_OCR.toml, and the verified stage,   *)
(* <doc>_OCRedit.toml, of each document, and the editor panel over them.   *)
(***************************************************************************)

Docs == {"p01", "p02"}
NoDoc == "none"
NoFile == <<"NOFILE">>

\* Texts OCR_RV25j_Process.write_toml can leave in a raw-stage file.
OcrTexts == {<<"a">>, <<"b">>}
\* Texts a user can type into the verification editor.
UserTexts == {<<"a", "b">>, <<"b", "\n">>}

\* reset_editors: the placeholder texts of the two editors.
RawPlaceholder == <<"# No OCR data loaded.">>
EditPlaceholder == <<"# Press 'OCR' to generate data.">>

\* shutil.copy(src, dst): dst holds the bytes of src.
ShutilCopy_NoWrite(files, src) == NoFile
ShutilCopy(files, src) == src

\* A write that adds the text to what the file held.
WriteText_Append(old, new) == IF old = NoFile THEN new ELSE old \o new

\* Path.write_text(content): the file holds content and nothing else.
WriteText(old, new) == new

\* RV25jProcessor.write_toml, as the store sees it: the raw-stage file of
\* document d is overwritten with the text t.
WriteRaw(d, t) ==
    /\ d \in Docs /\ t \in OcrTexts
    /\ rawFile' = [rawFile EXCEPT ![d] = WriteText(@, t)]
    /\ storeLog' = [op |-> "extract", doc |-> d, text |-> t,
                    rawPre |-> rawFile[d], editPre |-> editFile[d]]
    /\ UNCHANGED <<editFile, curDoc, editState, rawText, editText>>
    /\ UNCHANGED notStore

\* A load that copies the raw-stage file forward whenever it exists.
LoadFiles_AlwaysCopy(d) ==
    /\ d \in Docs
    /\ curDoc' = d
    /\ rawText' = IF rawFile[d] # NoFile THEN rawFile[d] ELSE RawPlaceholder
    /\ IF rawFile[d] # NoFile
       THEN /\ editFile' = [editFile EXCEPT ![d] = ShutilCopy(editFile, rawFile[d])]
            /\ editText' = rawFile[d]
       ELSE /\ editText' = IF editFile[d] # NoFile THEN editFile[d] ELSE EditPlaceholder
            /\ editFile' = editFile
    /\ editState' = "disabled"
    /\ storeLog' = [op |-> "load", doc |-> d, text |-> <<>>,
                    rawPre |-> rawFile[d], editPre |-> editFile[d]]
    /\ UNCHANGED rawFile
    /\ UNCHANGED notStore

\* OCRTomlEditor.load_files(parent_dir, base_name_str) for document d.
LoadFiles(d) ==
    /\ d \in Docs
    /\ curDoc' = d
    \* reset_editors, then the raw editor shows the raw file when it exists
    /\ rawText' = IF rawFile[d] # NoFile THEN rawFile[d] ELSE RawPlaceholder
    /\ IF editFile[d] # NoFile
       THEN /\ editText' = editFile[d]
            /\ editFile' = editFile
       ELSE IF rawFile[d] # NoFile
       THEN /\ editFile' = [editFile EXCEPT ![d] = ShutilCopy(editFile, rawFile[d])]
            /\ editText' = rawFile[d]
       ELSE /\ editText' = EditPlaceholder
            /\ editFile' = editFile
    /\ editState' = "disabled"
    /\ storeLog' = [op |-> "load", doc |-> d, text |-> <<>>,
                    rawPre |-> rawFile[d], editPre |-> editFile[d]]
    /\ UNCHANGED rawFile
    /\ UNCHANGED notStore

\* The user types into the verification editor while it is enabled.
TypeText(t) ==
    /\ t \in UserTexts
    /\ editState = "normal"
    /\ editText' = t
    /\ storeLog' = [op |-> "type", doc |-> curDoc, text |-> t,
                    rawPre |-> NoFile, editPre |-> NoFile]
    /\ UNCHANGED <<rawFile, editFile, curDoc, editState, rawText>>
    /\ UNCHANGED notStore

\* Leading and trailing whitespace removed, as str.strip() does.
IsSpace(c) == c \in {" ", "\n", "\t"}

RECURSIVE LStrip(_)
LStrip(s) == IF s # <<>> /\ IsSpace(Head(s)) THEN LStrip(Tail(s)) ELSE s

RECURSIVE RStrip(_)
RStrip(s) ==
    IF s # <<>> /\ IsSpace(s[Len(s)]) THEN RStrip(SubSeq(s, 1, Len(s) - 1)) ELSE s

Strip(s) == RStrip(LStrip(s))

\* TOMLTextEditor.get_content: the editor text, stripped.
GetContent(t) == Strip(t)

\* A click that saves and leaves the editor enabled.
OnSaveOrEditClick_StaysEnabled ==
    /\ IF editState = "normal"
       THEN IF curDoc = NoDoc
            THEN \* save_edited_toml returns False: nothing changes
                 UNCHANGED <<editFile, editState>>
            ELSE /\ editFile' = [editFile EXCEPT ![curDoc] = WriteText(@, GetContent(editText))]
                 /\ editState' = "normal"
       ELSE /\ editState' = "normal"
            /\ UNCHANGED editFile
    /\ storeLog' = [op |-> IF editState = "normal" /\ curDoc # NoDoc THEN "save"
                            ELSE "click",
                    doc |-> curDoc, text |-> GetContent(editText),
                    rawPre |-> IF curDoc = NoDoc THEN NoFile ELSE rawFile[curDoc],
                    editPre |-> IF curDoc = NoDoc THEN NoFile ELSE editFile[curDoc]]
    /\ UNCHANGED <<rawFile, curDoc, rawText, editText>>
    /\ UNCHANGED notStore

\* OCRTomlEditor.on_save_or_edit_click, with the save_edited_toml it calls:
\* an enabled editor is saved to the verified-stage file of the current
\* document and disabled; a disabled editor is enabled.
OnSaveOrEditClick ==
    /\ IF editState = "normal"
       THEN IF curDoc = NoDoc
            THEN \* save_edited_toml returns False: nothing changes
                 UNCHANGED <<editFile, editState>>
            ELSE /\ editFile' = [editFile EXCEPT ![curDoc] = WriteText(@, GetContent(editText))]
                 /\ editState' = "disabled"
       ELSE /\ editState' = "normal"
            /\ UNCHANGED editFile
    /\ storeLog' = [op |-> IF editState = "normal" /\ curDoc # NoDoc THEN "save"
                            ELSE "click",
                    doc |-> curDoc, text |-> GetContent(editText),
                    rawPre |-> IF curDoc = NoDoc THEN NoFile ELSE rawFile[curDoc],
                    editPre |-> IF curDoc = NoDoc THEN NoFile ELSE editFile[curDoc]]
    /\ UNCHANGED <<rawFile, curDoc, rawText, editText>>
    /\ UNCHANGED notStore

\* OCRTomlEditor.save_edited_toml called by itself: False, and nothing
\* written, while the editor is disabled or no document is current; else
\* the editor content written and the editor disabled.
SaveEditedToml ==
    /\ IF editState = "disabled" \/ curDoc = NoDoc
       THEN UNCHANGED <<editFile, editState>>
       ELSE /\ editFile' = [editFile EXCEPT ![curDoc] = WriteText(@, GetContent(editText))]
            /\ editState' = "disabled"
    /\ storeLog' = [op |-> IF editState = "disabled" \/ curDoc = NoDoc THEN "save_failed"
                            ELSE "save",
                    doc |-> curDoc, text |-> GetContent(editText),
                    rawPre |-> IF curDoc = NoDoc THEN NoFile ELSE rawFile[curDoc],
                    editPre |-> IF curDoc = NoDoc THEN NoFile ELSE editFile[curDoc]]
    /\ UNCHANGED <<rawFile, curDoc, rawText, editText>>
    /\ UNCHANGED notStore

StoreInit ==
    /\ rawFile = [d \in Docs |-> NoFile]
    /\ editFile = [d \in Docs |-> NoFile]
    /\ curDoc = NoDoc
    /\ editState = "disabled"
    /\ rawText = RawPlaceholder
    /\ editText = EditPlaceholder
    /\ storeLog = [op |-> "init", doc |-> NoDoc, text |-> <<>>,
                   rawPre |-> NoFile, editPre |-> NoFile]


-----------------------------------------------------------------------------
(***************************************************************************)
(* CRSFactory and CoordinateTransformer (ParcelCadastre.py).  An object    *)
(* the factory builds is an entry of fac.heap; its identity is its index.  *)
(***************************************************************************)

\* The codes CRS.from_epsg resolves; 999 stands for a code it rejects.
ValidEpsg == {24047, 24048, 32647, 32648, 4326}
Codes == ValidEpsg \cup {999}

CacheNames == {"crs", "tr", "w84crs", "w84tr"}

\* How many factory operations a behaviour makes.
MaxCrsOps == 2
\* Rows of a marker table handed to the transformer.
MaxCrsRows == 1

EpsgCrs(epsg) == [kind |-> "crs", def |-> "epsg", epsg |-> epsg, zone |-> 0, src |-> 0, dst |-> 0]
Proj4Crs(zone) == [kind |-> "crs", def |-> "proj4", epsg |-> 0, zone |-> zone, src |-> 0, dst |-> 0]
TransformerObj(src, dst) ==
    [kind |-> "transformer", def |-> "from_crs", epsg |-> 0, zone |-> 0, src |-> src, dst |-> dst]

Raised(f) == [f |-> f, ok |-> FALSE, id |-> 0]
Returned(f, id) == [f |-> f, ok |-> TRUE, id |-> id]

\* A new object: appended to the heap, identified by its index.
Alloc(f, obj) == Returned([f EXCEPT !.heap = Append(@, obj)], Len(f.heap) + 1)

\* CRS.from_epsg(epsg): raises for a code the registry does not know.
FromEpsg(f, epsg) == IF epsg \in ValidEpsg THEN Alloc(f, EpsgCrs(epsg)) ELSE Raised(f)

\* CRSFactory.__init__: empty caches, and the WGS84 CRS built once.
NewFactory ==
    [heap |-> <<EpsgCrs(4326)>>,
     crsWgs84 |-> 1,
     cache |-> [c \in CacheNames |-> [e \in Codes |-> 0]],
     built |-> [c \in CacheNames |-> [e \in Codes |-> 0]]]

\* The entry a cache now holds for a key, with the construction counted.
Store(f, name, epsg, id) ==
    [f EXCEPT !.cache[name][epsg] = id, !.built[name][epsg] = @ + 1]

\* CRSFactory._build_proj4_id75
BuildProj4Id75(f, epsg) ==
    IF epsg = 24047 THEN Alloc(f, Proj4Crs(47))
    ELSE IF epsg = 24048 THEN Alloc(f, Proj4Crs(48))
    ELSE FromEpsg(f, epsg)

\* A get_src_crs that builds on every request.
GetSrcCrs_NoCache(f, epsg) ==
    LET b == BuildProj4Id75(f, epsg)
    IN  IF b.ok THEN Returned(Store(b.f, "crs", epsg, b.id), b.id) ELSE b

\* CRSFactory.get_src_crs
GetSrcCrs(f, epsg) ==
    IF f.cache["crs"][epsg] # 0
    THEN Returned(f, f.cache["crs"][epsg])
    ELSE LET b == BuildProj4Id75(f, epsg)
         IN  IF b.ok THEN Returned(Store(b.f, "crs", epsg, b.id), b.id) ELSE b

\* CRSFactory.get_transformer_to_wgs84
GetTransformerToWgs84(f, epsg) ==
    IF f.cache["tr"][epsg] # 0
    THEN Returned(f, f.cache["tr"][epsg])
    ELSE LET s == GetSrcCrs(f, epsg)
         IN  IF ~s.ok THEN s
             ELSE LET t == Alloc(s.f, TransformerObj(s.id, s.f.crsWgs84))
                  IN  Returned(Store(t.f, "tr", epsg, t.id), t.id)

\* The target table of get_w84_utm_crs with the two zones exchanged.
W84UtmTarget_Swapped(epsg_src) ==
    IF epsg_src \in {24047, 32647} THEN 32648
    ELSE IF epsg_src \in {24048, 32648} THEN 32647
    ELSE epsg_src

\* CRSFactory.get_w84_utm_crs: the code of the target CRS.
W84UtmTarget(epsg_src) ==
    IF epsg_src \in {24047, 32647} THEN 32647
    ELSE IF epsg_src \in {24048, 32648} THEN 32648
    ELSE epsg_src

\* CRSFactory.get_w84_utm_crs
GetW84UtmCrs(f, epsg_src) ==
    IF f.cache["w84crs"][epsg_src] # 0
    THEN Returned(f, f.cache["w84crs"][epsg_src])
    ELSE LET c == FromEpsg(f, W84UtmTarget(epsg_src))
         IN  IF c.ok THEN Returned(Store(c.f, "w84crs", epsg_src, c.id), c.id) ELSE c

\* CRSFactory.get_transformer_to_w84_utm
GetTransformerToW84Utm(f, epsg_src) ==
    IF f.cache["w84tr"][epsg_src] # 0
    THEN Returned(f, f.cache["w84tr"][epsg_src])
    ELSE LET s == GetSrcCrs(f, epsg_src)
         IN  IF ~s.ok THEN s
             ELSE LET d == GetW84UtmCrs(s.f, epsg_src)
                  IN  IF ~d.ok THEN d
                      ELSE LET t == Alloc(d.f, TransformerObj(s.id, d.id))
                           IN  Returned(Store(t.f, "w84tr", epsg_src, t.id), t.id)

\* CoordinateTransformer.to_w84_utm: the EPSG recorded for a row.
RowEpsgDst(epsg_src) ==
    IF epsg_src \in {24047, 32647} THEN 32647
    ELSE IF epsg_src \in {24048, 32648} THEN 32648
    ELSE epsg_src


\* Marker tables handed to the transformer: rows of easting, northing, EPSG.
TableCodes == {24047, 32648, 4326, 999}
CrsRows == [e : {1}, n : {2}, epsg : TableCodes]
CrsTables == UNION {[1..k -> CrsRows] : k \in 0..MaxCrsRows}

\* Transformer.transform(e, n): the point, as computed by transformer tr.
Transform(tr, e, n) == [by |-> tr, e |-> e, n |-> n]

\* The first instance returned for a key of a cache (0: none so far).
NoteFirst(first, name, epsg, id) ==
    IF first[name][epsg] = 0 THEN [first EXCEPT ![name][epsg] = id] ELSE first

\* CoordinateTransformer.to_wgs84: the loop over the rows i..Len(df_id75).
RECURSIVE ToWgs84Rows(_, _, _, _, _)
ToWgs84Rows(f, first, df_id75, i, acc) ==
    IF i > Len(df_id75) THEN [f |-> f, ok |-> TRUE, first |-> first, out |-> acc]
    ELSE LET t == GetTransformerToWgs84(f, df_id75[i].epsg)
         IN  IF ~t.ok THEN [f |-> t.f, ok |-> FALSE, first |-> first, out |-> <<>>]
             ELSE ToWgs84Rows(t.f, NoteFirst(first, "tr", df_id75[i].epsg, t.id), df_id75, i + 1,
                              Append(acc, [e |-> df_id75[i].e, n |-> df_id75[i].n,
                                           epsg |-> df_id75[i].epsg, src |-> df_id75[i].epsg,
                                           tr |-> t.id,
                                           pt |-> Transform(t.id, df_id75[i].e, df_id75[i].n)]))

\* CoordinateTransformer.to_w84_utm: the loop over the rows i..Len(df_id75).  A
\* row of the result holds the transformed point and the EPSG recorded for
\* it; src and tr note the row's source code and the transformer used.
RECURSIVE ToW84UtmRows(_, _, _, _, _)
ToW84UtmRows(f, first, df_id75, i, acc) ==
    IF i > Len(df_id75) THEN [f |-> f, ok |-> TRUE, first |-> first, out |-> acc]
    ELSE LET t == GetTransformerToW84Utm(f, df_id75[i].epsg)
             p == Transform(t.id, df_id75[i].e, df_id75[i].n)
         IN  IF ~t.ok THEN [f |-> t.f, ok |-> FALSE, first |-> first, out |-> <<>>]
             ELSE ToW84UtmRows(t.f, NoteFirst(first, "w84tr", df_id75[i].epsg, t.id), df_id75, i + 1,
                               Append(acc, [e |-> p, n |-> p,
                                            epsg |-> RowEpsgDst(df_id75[i].epsg),
                                            src |-> df_id75[i].epsg,
                                            tr |-> t.id, pt |-> p]))

\* Data frames are entries of a list, a frame known by its index: the
\* caller's table is frame 1.
\* A copy that is the frame itself.
DfCopy_Alias(frames, ref) == [frames |-> frames, ref |-> ref]

\* df.copy(): a new frame with the rows of frame ref.
DfCopy(frames, ref) == [frames |-> Append(frames, frames[ref]), ref |-> Len(frames) + 1]

\* df[col] = values, for the columns a transformation sets: the rows of
\* frame ref become rows.
SetColumns(frames, ref, rows) == [frames EXCEPT ![ref] = rows]

\* The end of to_wgs84 / to_w84_utm: df_id75 copied, the columns set on
\* the copy, the copy returned.  inp is the caller's table after the call.
CopyAndSet(df_id75, rows) ==
    LET c == DfCopy(<<df_id75>>, 1)
        frames == SetColumns(c.frames, c.ref, rows)
    IN  [inp |-> frames[1], out |-> frames[c.ref]]

\* One request to the factory: get_src_crs, get_transformer_to_wgs84,
\* get_w84_utm_crs or get_transformer_to_w84_utm for the code epsg.
Request(name, epsg) ==
    /\ crsLog.n < MaxCrsOps
    /\ name \in CacheNames /\ epsg \in Codes
    /\ LET r == CASE name = "crs" -> GetSrcCrs(fac, epsg)
                  [] name = "tr" -> GetTransformerToWgs84(fac, epsg)
                  [] name = "w84crs" -> GetW84UtmCrs(fac, epsg)
                  [] name = "w84tr" -> GetTransformerToW84Utm(fac, epsg)
       IN  /\ fac' = r.f
           /\ crsLog' = [n |-> crsLog.n + 1, op |-> name, code |-> epsg,
                         ok |-> r.ok, id |-> r.id,
                         first |-> IF r.ok THEN NoteFirst(crsLog.first, name, epsg, r.id)
                                   ELSE crsLog.first,
                         again |-> crsLog.first[name][epsg] # 0,
                         arg |-> <<>>, inp |-> <<>>, out |-> <<>>]
    /\ UNCHANGED notCrs

\* CoordinateTransformer.to_wgs84(df_id75)
ToWgs84(df_id75) ==
    /\ crsLog.n < MaxCrsOps
    /\ df_id75 \in CrsTables
    /\ LET r == ToWgs84Rows(fac, crsLog.first, df_id75, 1, <<>>)
       IN  /\ fac' = r.f
           /\ crsLog' = [n |-> crsLog.n + 1, op |-> "to_wgs84", code |-> 0,
                         ok |-> r.ok, id |-> 0, first |-> r.first,
                         again |-> FALSE, arg |-> df_id75,
                         inp |-> IF r.ok THEN CopyAndSet(df_id75, r.out).inp ELSE df_id75,
                         out |-> IF r.ok THEN CopyAndSet(df_id75, r.out).out ELSE <<>>]
    /\ UNCHANGED notCrs

\* CoordinateTransformer.to_w84_utm(df_id75)
ToW84Utm(df_id75) ==
    /\ crsLog.n < MaxCrsOps
    /\ df_id75 \in CrsTables
    /\ LET r == ToW84UtmRows(fac, crsLog.first, df_id75, 1, <<>>)
       IN  /\ fac' = r.f
           /\ crsLog' = [n |-> crsLog.n + 1, op |-> "to_w84_utm", code |-> 0,
                         ok |-> r.ok, id |-> 0, first |-> r.first,
                         again |-> FALSE, arg |-> df_id75,
                         inp |-> IF r.ok THEN CopyAndSet(df_id75, r.out).inp ELSE df_id75,
                         out |-> IF r.ok THEN CopyAndSet(df_id75, r.out).out ELSE <<>>]
    /\ UNCHANGED notCrs

CrsInit ==
    /\ fac = NewFactory
    /\ crsLog = [n |-> 0, op |-> "init", code |-> 0, ok |-> TRUE, id |-> 0,
                 first |-> [c \in CacheNames |-> [e \in Codes |-> 0]],
                 again |-> FALSE, arg |-> <<>>, inp |-> <<>>, out |-> <<>>]

-----------------------------------------------------------------------------
(***************************************************************************)
(* Text and numbers.  A text is a sequence of characters; a float is a     *)
(* decimal m / 10^s, or NaN.  The binary rounding of a float is left out:  *)
(* the values met have at most 16 significant digits.                      *)
(***************************************************************************)

DigitChars == <<"0", "1", "2", "3", "4", "5", "6", "7", "8", "9">>
IsDigit(c) == \E d \in 1..10 : DigitChars[d] = c
DigitValue(c) == (CHOOSE d \in 1..10 : DigitChars[d] = c) - 1

\* The non-breaking space, one character.
Nbsp == "nbsp"

RECURSIVE Pow10(_)
Pow10(k) == IF k = 0 THEN 1 ELSE 10 * Pow10(k - 1)

\* The number a sequence of digits writes (0 for the empty sequence).
RECURSIVE DigitsToNat(_)
DigitsToNat(ds) ==
    IF ds = <<>> THEN 0
    ELSE 10 * DigitsToNat(SubSeq(ds, 1, Len(ds) - 1)) + DigitValue(ds[Len(ds)])

\* str(n) for a natural number n.
RECURSIVE NatToChars(_)
NatToChars(n) ==
    IF n < 10 THEN <<DigitChars[n + 1]>>
    ELSE NatToChars(n \div 10) \o <<DigitChars[(n % 10) + 1]>>

RECURSIVE Filter(_, _)
Filter(s, keep) ==
    IF s = <<>> THEN <<>>
    ELSE (IF Head(s) \in keep THEN <<Head(s)>> ELSE <<>>) \o Filter(Tail(s), keep)

RECURSIVE Without(_, _)
Without(s, c) ==
    IF s = <<>> THEN <<>>
    ELSE (IF Head(s) = c THEN <<>> ELSE <<Head(s)>>) \o Without(Tail(s), c)

RECURSIVE Count(_, _)
Count(s, c) ==
    IF s = <<>> THEN 0 ELSE (IF Head(s) = c THEN 1 ELSE 0) + Count(Tail(s), c)

\* The position of the first c in s, or 0.
RECURSIVE IndexOf(_, _, _)
IndexOf(s, c, i) ==
    IF i > Len(s) THEN 0 ELSE IF s[i] = c THEN i ELSE IndexOf(s, c, i + 1)

NaN == [nan |-> TRUE, m |-> 0, s |-> 0]
Num(m, s) == [nan |-> FALSE, m |-> m, s |-> s]

\* The float m / 10^s, written without trailing zero decimals.
RECURSIVE Dec(_, _)
Dec(m, s) == IF s > 0 /\ m % 10 = 0 THEN Dec(m \div 10, s - 1) ELSE Num(m, s)

\* A value a cell or an argument can hold that is no string (a missing
\* value of the frame: float NaN).
Missing == <<"<NA>">>

\* float(text) for a text of digits and dots: the number, or NaN where
\* float raises ValueError (no digit at all, or more than one dot).
PyFloat(t) ==
    LET dot == IndexOf(t, ".", 1)
        ip == IF dot = 0 THEN t ELSE SubSeq(t, 1, dot - 1)
        fp == IF dot = 0 THEN <<>> ELSE SubSeq(t, dot + 1, Len(t))
    IN  IF Count(t, ".") > 1 \/ Len(ip) + Len(fp) = 0
           \/ \E i \in 1..Len(t) : ~IsDigit(t[i]) /\ t[i] # "."
        THEN NaN
        ELSE Dec(DigitsToNat(ip \o fp), Len(fp))

\* The characters re.sub(r"[^0-9.]", "", s) keeps.
NumericChars == {DigitChars[d] : d \in 1..10} \cup {"."}

\* first, *rest = cleaned.split("."); first + "." + "".join(rest)
MergeDots(cleaned) ==
    LET dot == IndexOf(cleaned, ".", 1)
    IN  SubSeq(cleaned, 1, dot) \o Without(SubSeq(cleaned, dot + 1, Len(cleaned)), ".")

\* A safe_float that leaves the extra dots in place.
SafeFloat_KeepDots(x) ==
    IF x = Missing \/ Strip(x) = <<>> THEN NaN
    ELSE PyFloat(Filter(x, NumericChars))

\* safe_float(s)
SafeFloat(x) ==
    IF x = Missing \/ Strip(x) = <<>> THEN NaN
    ELSE LET cleaned == Filter(x, NumericChars)
         IN  PyFloat(IF Count(cleaned, ".") > 1 THEN MergeDots(cleaned) ELSE cleaned)

\* Characters of the arguments tried, and their greatest length.
FloatChars == {"7", "1", ".", ",", " "}
MaxStrLen == 4

RECURSIVE TextsUpTo(_, _)
TextsUpTo(chars, n) ==
    IF n = 0 THEN {<<>>}
    ELSE LET shorter == TextsUpTo(chars, n - 1)
         IN  shorter \cup {Append(t, c) : t \in shorter, c \in chars}

\* "711,049..218", the multi-dot text of the specification.
MultiDotText == <<"7", "1", "1", ",", "0", "4", "9", ".", ".", "2", "1", "8">>

FloatInputs == TextsUpTo(FloatChars, MaxStrLen) \cup {MultiDotText, Missing}

NotCalled == [nan |-> TRUE, m |-> -1, s |-> 0]

\* One call safe_float(sfIn).
CallSafeFloat ==
    /\ sfOut = NotCalled
    /\ sfOut' = SafeFloat(sfIn)
    /\ UNCHANGED sfIn
    /\ UNCHANGED notFloat

FloatInit == sfIn \in FloatInputs /\ sfOut = NotCalled
FloatIdle == sfIn = Missing /\ sfOut = NotCalled

ExIdle == md = "none" /\ exPc = "idle" /\ df = "none" /\ toml = "none"

-----------------------------------------------------------------------------
(***************************************************************************)
(* Table extraction (RV25jProcessor.parse_markdown_table).  The input is   *)
(* the frame pandas.read_html returns for the first table of the markup:   *)
(* ncols columns, and rows of cells, each a text or Missing (an empty      *)
(* cell of the markup).                                                    *)
(***************************************************************************)

\* The rows tried, as the five fields a deed table carries for a marker:
\* its name and, for northing and easting, the metres and the thousandths.
Row(name, nm, nf, em, ef) == [name |-> name, nm |-> nm, nf |-> nf, em |-> em, ef |-> ef]

RowPool ==
    { Row(<<"s", "4", "1">>, <<"7", "1", "1", "0", "4", "2">>, <<"7", "2", "3">>,
          <<"8", "1", "0", "2", "9", "3">>, <<"8", "0", "7">>),
      Row(<<"O", "l">>, <<"7", "1", "1", ",", "0", "4", "9">>, Missing,
          <<"x">>, <<"8", " ", "0", "7">>),
      Row(<<"5", Nbsp, "2", "0">>, <<"1", ".", "5">>, <<"7">>, Missing, Missing),
      Row(<<"c">>, <<"3">>, <<"4">>,
          <<"7", "1", "1", ",", "0", "4", "9", ".", "2", "1", "8">>, <<"5">>),
      Row(Missing, Missing, Missing, Missing, Missing) }

\* A cell of the columns between the name and the coordinates.
Filler == <<"9">>

\* The most rows of a table, the most columns that carry data, and the
\* longest run of empty columns the OCR engine inserts.
MaxRows == 2
MaxCols == 10
MaxBlankRun == 4

Min(a, b) == IF a < b THEN a ELSE b

\* The k data cells of a row: the name, fillers, and the last coordinate
\* fields, as many as fit.
DataCells(r, k) ==
    LET nums == <<r.nm, r.nf, r.em, r.ef>>
        t == Min(4, k - 1)
    IN  IF k = 0 THEN <<>>
        ELSE <<r.name>> \o [i \in 1..(k - 1 - t) |-> Filler] \o SubSeq(nums, 5 - t, 4)

\* The cells of a row of the frame: b empty cells after the first p data cells.
RawCells(r, k, b, p) ==
    LET d == DataCells(r, k)
    IN  SubSeq(d, 1, p) \o [i \in 1..b |-> Missing] \o SubSeq(d, p + 1, k)

RowSeqs == UNION {[1..n -> RowPool] : n \in 0..MaxRows}

\* The frames tried.
Frames ==
    { [kind |-> "table", ncols |-> k + b,
       rows |-> [i \in 1..Len(rs) |-> RawCells(rs[i], k, b, p)]] :
         <<k, b, p, rs>> \in
            { q \in (0..MaxCols) \X (0..MaxBlankRun) \X (0..MaxCols) \X RowSeqs :
                 q[3] <= q[1] /\ (q[2] = 0 => q[3] = 0) } }

\* Markup without a table, and markup pandas.read_html fails on.
NoTable == [kind |-> "no_table", ncols |-> 0, rows |-> <<>>]
Unreadable == [kind |-> "unreadable", ncols |-> 0, rows |-> <<>>]

\* "" if pd.isna(x) else str(x).replace("\xa0", " ").strip()
Normalize(x) ==
    IF x = Missing THEN <<>>
    ELSE Strip([i \in 1..Len(x) |-> IF x[i] = Nbsp THEN " " ELSE x[i]])

\* df_raw.map(...): every cell normalized.
NormalizeFrame(f) ==
    [f EXCEPT !.rows = [i \in 1..Len(f.rows) |->
                           [c \in 1..f.ncols |-> Normalize(f.rows[i][c])]]]

\* A blank test that looks at the first row only.
IsBlankColumn_FirstRow(f, c) == f.rows = <<>> \/ f.rows[1][c] = <<>>

\* all(val == "" for val in df_raw[col])
IsBlankColumn(f, c) == \A i \in 1..Len(f.rows) : f.rows[i][c] = <<>>

\* The columns left by df_raw.drop(columns=cols_to_drop), in their order.
RECURSIVE KeptFrom(_, _)
KeptFrom(f, c) ==
    IF c > f.ncols THEN <<>>
    ELSE (IF IsBlankColumn(f, c) THEN <<>> ELSE <<c>>) \o KeptFrom(f, c + 1)

KeptColumns(f) == KeptFrom(f, 1)

\* a + b on floats: NaN if either is NaN.
Add(a, b) ==
    IF a.nan \/ b.nan THEN NaN
    ELSE LET s == IF a.s > b.s THEN a.s ELSE b.s
         IN  Dec(a.m * Pow10(s - a.s) + b.m * Pow10(s - b.s), s)

\* v / 1000.0
DivThousand(v) == IF v.nan THEN NaN ELSE Dec(v.m, v.s + 3)

\* The digits of n, padded with zeros on the left to k digits.
RECURSIVE ZeroPad(_, _)
ZeroPad(t, k) == IF Len(t) >= k THEN t ELSE ZeroPad(<<"0">> \o t, k)

NanText == <<"n", "a", "n">>

\* str(x) for a float x of the frame (astype(str)).
ReprFloat(v) ==
    IF v.nan THEN NanText
    ELSE IF v.s = 0 THEN NatToChars(v.m) \o <<".", "0">>
    ELSE NatToChars(v.m \div Pow10(v.s)) \o <<".">>
            \o ZeroPad(NatToChars(v.m % Pow10(v.s)), v.s)

\* The thousandths of v, rounded to the nearest (a tie, which no value met
\* here is, to the even one).
Thousandths(v) ==
    IF v.s <= 3 THEN v.m * Pow10(3 - v.s)
    ELSE LET unit == Pow10(v.s - 3)
             q == v.m \div unit
             r == v.m % unit
         IN  IF 2 * r > unit \/ (2 * r = unit /\ q % 2 = 1) THEN q + 1 ELSE q

\* f"{x:.3f}"
Format3(v) ==
    IF v.nan THEN NanText
    ELSE LET k == Thousandths(v)
         IN  NatToChars(k \div 1000) \o <<".">> \o ZeroPad(NatToChars(k % 1000), 3)

\* pd.to_numeric(text, errors='coerce'): the number the text writes, NaN
\* for any other text.
ToNumeric(t) == PyFloat(t)

\* Step 4a: spaces removed, stripped, converted.
CleanCoordinate(t) == ToNumeric(Strip(Without(t, " ")))

\* The columns _ColumnMeterFraction reads, counted from 0 where the code
\* counts from 1.
MeterFractionColumns_Shifted == [name |-> 1, nm |-> 5, nf |-> 6, em |-> 7, ef |-> 8]

\* The columns _ColumnMeterFraction reads: df_raw.columns[0], [5] .. [8].
MeterFractionColumns == [name |-> 1, nm |-> 6, nf |-> 7, em |-> 8, ef |-> 9]

\* _ColumnMeterFraction for row i of the frame f left with the columns kept:
\* the name, and meters + fraction / 1000.0 for each coordinate.
ColumnMeterFraction(f, kept, i) ==
    LET col == MeterFractionColumns
        cell(c) == f.rows[i][kept[c]]
    IN  [name |-> cell(col.name),
         n |-> ReprFloat(Add(SafeFloat(cell(col.nm)), DivThousand(SafeFloat(cell(col.nf))))),
         e |-> ReprFloat(Add(SafeFloat(cell(col.em)), DivThousand(SafeFloat(cell(col.ef)))))]

\* The other layout: df_raw.columns[0], [-2] and [-1].
ColumnLastTwo(f, kept, i) ==
    [name |-> f.rows[i][kept[1]],
     n |-> f.rows[i][kept[Len(kept) - 1]],
     e |-> f.rows[i][kept[Len(kept)]]]

\* A filter that drops a row as soon as one coordinate is NaN.
KeepsRow_Any(c) == ~c.n.nan /\ ~c.e.nan

\* dropna(subset=[N_COL, E_COL], how='all') keeps the row.
KeepsRow(c) == ~(c.n.nan /\ c.e.nan)

\* The rows i..Len(coords) that step 5 appends, each with the index src of
\* its row in the frame.
RECURSIVE FinalRows(_, _)
FinalRows(coords, i) ==
    IF i > Len(coords) THEN <<>>
    ELSE LET c == coords[i]
             rec == [src |-> i, name |-> Strip(c.name),
                     n |-> Format3(c.n), e |-> Format3(c.e)]
         IN  (IF KeepsRow(c) /\ (rec.n # <<>> \/ rec.e # <<>>) THEN <<rec>> ELSE <<>>)
                \o FinalRows(coords, i + 1)

Frame(status, warn, kept, coords, rows) ==
    [status |-> status, warn |-> warn, kept |-> kept, coords |-> coords, rows |-> rows]

\* parse_markdown_table: the frame returned (status "ok"), or the exception
\* that leaves it (status "raise").  kept and coords note the columns left
\* after the drop and the coordinates of each row before the filter.
ParseMarkdownTable(f0) ==
    IF f0.kind = "no_table" THEN Frame("ok", "no_table", <<>>, <<>>, <<>>)
    ELSE IF f0.kind = "unreadable" THEN Frame("ok", "read_html_failed", <<>>, <<>>, <<>>)
    ELSE LET f == NormalizeFrame(f0)
             kept == KeptColumns(f)
             picked == [i \in 1..Len(f.rows) |->
                          IF Len(kept) = 9 THEN ColumnMeterFraction(f, kept, i)
                          ELSE ColumnLastTwo(f, kept, i)]
             coords == [i \in 1..Len(f.rows) |->
                          [name |-> picked[i].name,
                           n |-> CleanCoordinate(picked[i].n),
                           e |-> CleanCoordinate(picked[i].e)]]
         IN  IF Len(kept) < 2 THEN Frame("raise", "IndexError", kept, <<>>, <<>>)
             ELSE IF Len(kept) = 2 THEN Frame("raise", "KeyError", kept, <<>>, <<>>)
             ELSE Frame("ok", "", kept, coords, FinalRows(coords, 1))

-----------------------------------------------------------------------------
(***************************************************************************)
(* The raw-stage writer (RV25jProcessor.write_toml) and the loop body of   *)
(* RV25jProcessor.process for one document.                                *)
(***************************************************************************)

NoRecord == [written |-> FALSE, area_grid |-> <<>>, area_topo |-> <<>>, marker |-> <<>>]

\* The text write_toml writes for area_grid and area_topo.
AreaText == <<"r", "a", "i", "-", "n", "g", "a", "n", "-", "w", "a">>

UpperCase == <<"A", "B", "C", "D", "E", "F", "G", "H", "I", "J", "K", "L", "M",
               "N", "O", "P", "Q", "R", "S", "T", "U", "V", "W", "X", "Y", "Z">>

\* chr(code) for the code of a capital letter.
Chr(code) == UpperCase[code - 64]

\* A label that leaves the letters one position early.
Label_OffByOne(idx) == IF idx < 26 THEN <<Chr(64 + idx)>> ELSE <<"P">> \o NatToChars(idx)

\* chr(64 + idx) if idx <= 26 else f"P{idx}"
Label(idx) == IF idx <= 26 THEN <<Chr(64 + idx)>> ELSE <<"P">> \o NatToChars(idx)

\* _toml_escape: backslash and double quote escaped.
RECURSIVE TomlEscape(_)
TomlEscape(t) ==
    IF t = <<>> THEN <<>>
    ELSE (IF Head(t) \in {"\\", "\""} THEN <<"\\", Head(t)>> ELSE <<Head(t)>>)
            \o TomlEscape(Tail(t))

\* float(text) raises ValueError: the text writes no number and is not "nan".
FloatRaises(t) == t # NanText /\ PyFloat(t).nan

\* The vertices of write_toml: the rows i..Len(rows) whose two coordinate
\* texts float() accepts.
RECURSIVE Vertices(_, _)
Vertices(rows, i) ==
    IF i > Len(rows) THEN <<>>
    ELSE (IF FloatRaises(rows[i].n) \/ FloatRaises(rows[i].e) THEN <<>>
          ELSE <<[src |-> rows[i].src, marker |-> rows[i].name,
                  north |-> PyFloat(rows[i].n), east |-> PyFloat(rows[i].e)]>>)
            \o Vertices(rows, i + 1)

\* write_toml(image_path, df): the record written to <prefix>_OCR.toml, or
\* NoRecord when no row is numeric.  A marker tuple is
\* [idx, label, name, northing, easting]; src notes the row it came from.
WriteToml(rows) ==
    LET vertices == Vertices(rows, 1)
    IN  IF vertices = <<>> THEN NoRecord
        ELSE [written |-> TRUE,
              area_grid |-> TomlEscape(AreaText),
              area_topo |-> TomlEscape(AreaText),
              marker |-> [idx \in 1..Len(vertices) |->
                            [seq |-> idx,
                             label |-> TomlEscape(Label(idx)),
                             name |-> TomlEscape(vertices[idx].marker),
                             n |-> Format3(vertices[idx].north),
                             e |-> Format3(vertices[idx].east),
                             src |-> vertices[idx].src]]]

\* The body of the loop of process() for the document: the table is parsed
\* and, unless the frame is empty, written.
ProcessDocument ==
    /\ exPc = "input"
    /\ df' = ParseMarkdownTable(md)
    /\ toml' = IF df'.status = "ok" /\ df'.rows # <<>> THEN WriteToml(df'.rows)
               ELSE NoRecord
    /\ exPc' = IF df'.status = "raise" THEN "crashed"
               ELSE IF df'.rows = <<>> THEN "skipped"
               ELSE IF toml'.written THEN "written" ELSE "no_numeric"
    /\ UNCHANGED md
    /\ UNCHANGED notEx

\* write_toml called with the frame df.
CallWriteToml ==
    /\ exPc = "frame"
    /\ toml' = WriteToml(df.rows)
    /\ exPc' = IF toml'.written THEN "written" ELSE "no_numeric"
    /\ UNCHANGED <<md, df>>
    /\ UNCHANGED notEx

NoFrame == Frame("none", "", <<>>, <<>>, <<>>)

ExInit ==
    /\ md \in Frames \cup {NoTable, Unreadable}
    /\ exPc = "input"
    /\ df = NoFrame
    /\ toml = NoRecord

\* The frames write_toml is called with: up to MaxFrameRows rows with
\* distinct names, of which up to MaxBadRows hold a northing float() rejects.
MaxFrameRows == 28
MaxBadRows == 1

FrameRow(i, bad) ==
    [src |-> i, name |-> <<"m">> \o NatToChars(i),
     n |-> IF i \in bad THEN <<>> ELSE Format3(Dec(1000 + i, 0)),
     e |-> Format3(Dec(5, 1))]

\* The subsets of 1..k of at most n elements.
RECURSIVE SubsetsUpTo(_, _)
SubsetsUpTo(k, n) ==
    IF n = 0 THEN {{}}
    ELSE LET smaller == SubsetsUpTo(k, n - 1)
         IN  smaller \cup {b \cup {i} : b \in smaller, i \in 1..k}

WriteFrames ==
    UNION { { Frame("ok", "", <<>>, <<>>, [i \in 1..k |-> FrameRow(i, bad)]) :
                bad \in SubsetsUpTo(k, MaxBadRows) } : k \in 0..MaxFrameRows }

\* Frames of a ring: of up to MaxRingRows rows, the last repeats the name of
\* the first, its two coordinates d ten-thousandths away from the first's.
MaxRingRows == 4
RingDeltas == {0, 9, 11}

RingRow(k, d) ==
    [src |-> k, name |-> FrameRow(1, {}).name,
     n |-> ReprFloat(Dec(10000 * 1001 + d, 4)),
     e |-> ReprFloat(Dec(5000 + d, 4))]

RingFrames ==
    { Frame("ok", "", <<>>, <<>>,
            [i \in 1..k |-> IF i = k THEN RingRow(k, d) ELSE FrameRow(i, {})]) :
        k \in 3..MaxRingRows, d \in RingDeltas }

\* Frames of the unit square (0,0), (1,0), (1,1), (0,1) as (easting,
\* northing): in this order or the reverse, with or without the first
\* vertex repeated at the end.
SquareCorners == << <<0, 0>>, <<1, 0>>, <<1, 1>>, <<0, 1>> >>

SquareRow(i, k, corner) ==
    [src |-> i, name |-> FrameRow(k, {}).name,
     n |-> Format3(Dec(corner[2], 0)), e |-> Format3(Dec(corner[1], 0))]

SquareFrames ==
    { Frame("ok", "", <<>>, <<>>,
            [i \in 1..len |->
                LET k == ((i - 1) % 4) + 1
                IN  SquareRow(i, k, SquareCorners[IF reversed THEN 5 - k ELSE k])]) :
        len \in {4, 5}, reversed \in BOOLEAN }

WriteInit ==
    /\ md = NoTable
    /\ exPc = "frame"
    /\ df \in WriteFrames \cup RingFrames \cup SquareFrames
    /\ toml = NoRecord

-----------------------------------------------------------------------------
(***************************************************************************)
(* A run of the extraction script: main() constructs the RV25jProcessor    *)
(* over the config.toml of the folder and process() loops over the         *)
(* documents found.  A document is the list of the tables (the *_tblNN.md  *)
(* files) the OCR engine produced for its image.                           *)
(***************************************************************************)

\* A value of config.toml: a key that is absent, a string, an integer, a
\* list of names.
Absent == [type |-> "absent", v |-> <<>>]
StrVal(t) == [type |-> "str", v |-> t]
IntVal(t) == [type |-> "int", v |-> t]
ListVal(t) == [type |-> "list", v |-> t]

Spec3 == ListVal(<<"MRK_DOL", "NORTHING", "EASTING">>)
Spec5 == ListVal(<<"SEQ_NUM", "MRK_SEQ", "MRK_DOL", "NORTHING", "EASTING">>)

\* A config.toml with every key the script reads.
GoodCfg ==
    [file |-> "ok", spec |-> Spec3,
     office |-> StrVal(<<"N", "a">>), survey |-> StrVal(<<"M">>),
     epsg |-> IntVal(<<"2", "4", "0", "4", "7">>)]

\* The configurations tried: the good one, and each way of spoiling one key.
Configs ==
    {GoodCfg}
    \cup {[GoodCfg EXCEPT !.file = f] : f \in {"missing", "unparseable"}}
    \cup {[GoodCfg EXCEPT !.spec = x] : x \in {Absent, Spec5}}
    \cup {[GoodCfg EXCEPT !.office = x] : x \in {Absent, StrVal(<<" ">>), IntVal(<<"7">>)}}
    \cup {[GoodCfg EXCEPT !.survey = x] : x \in {Absent, StrVal(<<>>)}}
    \cup {[GoodCfg EXCEPT !.epsg = x] :
             x \in {Absent, StrVal(<<" ", "2", "4", "0", "4", "8">>), StrVal(<<"x">>)}}

Loaded(spec) == [ok |-> TRUE, err |-> "", spec |-> spec]
Fatal(err) == [ok |-> FALSE, err |-> err, spec |-> <<>>]

\* A loader that falls back to the usual three names.
LoadColumnSpec_Default(c) ==
    IF c.file # "ok" THEN Fatal("config")
    ELSE IF c.spec.type = "absent" THEN Loaded(Spec3.v)
    ELSE Loaded(c.spec.v)

\* RV25jProcessor.__init__: config.toml read and [META].COLUMN_SPEC taken,
\* or SystemExit.
LoadColumnSpec(c) ==
    IF c.file = "missing" THEN Fatal("config.toml not found")
    ELSE IF c.file = "unparseable" THEN Fatal("config.toml unreadable")
    ELSE IF c.spec.type = "absent" THEN Fatal("missing COLUMN_SPEC")
    ELSE Loaded(c.spec.v)

\* str.isdigit()
IsDigits(t) == t # <<>> /\ \A i \in 1..Len(t) : IsDigit(t[i])

MetaOk(office, survey, epsg) ==
    [ok |-> TRUE, office |-> office, survey |-> survey, epsg |-> epsg]
MetaFatal == [ok |-> FALSE, office |-> <<>>, survey |-> <<>>, epsg |-> <<>>]

\* get_meta_and_deed_from_config: office, survey type and EPSG text, or
\* SystemExit.
GetMetaAndDeedFromConfig(c) ==
    IF c.office.type = "absent" THEN MetaFatal
    ELSE IF c.office.type # "str" \/ Strip(c.office.v) = <<>> THEN MetaFatal
    ELSE IF c.survey.type = "absent" \/ c.epsg.type = "absent" THEN MetaFatal
    ELSE IF c.survey.type # "str" \/ Strip(c.survey.v) = <<>> THEN MetaFatal
    ELSE IF c.epsg.type = "int" THEN MetaOk(c.office.v, c.survey.v, c.epsg.v)
    ELSE IF c.epsg.type = "str" /\ IsDigits(Strip(c.epsg.v))
         THEN MetaOk(c.office.v, c.survey.v, Strip(c.epsg.v))
    ELSE MetaFatal

\* A parser that never looks at the length of the column specification.
ParseTable_AnyLength(spec, f0) == ParseMarkdownTable(f0)

\* parse_markdown_table under the column specification spec: the three
\* names are unpacked from it before the markup is read.
ParseTable(spec, f0) ==
    IF Len(spec) # 3 THEN Frame("raise", "ValueError", <<>>, <<>>, <<>>)
    ELSE ParseMarkdownTable(f0)

Parsed(rows, warns) == [status |-> "ok", err |-> "", rows |-> rows, warns |-> warns]
ParseRaised(err) == [status |-> "raise", err |-> err, rows |-> <<>>, warns |-> <<>>]

\* parse_existing_md / run_ocr: the tables i..Len(doc) of the document
\* parsed in turn and the frames that are not empty concatenated.
RECURSIVE ParseTables(_, _, _)
ParseTables(spec, doc, i) ==
    IF i > Len(doc) THEN Parsed(<<>>, <<>>)
    ELSE LET d == ParseTable(spec, doc[i])
         IN  IF d.status = "raise" THEN ParseRaised(d.warn)
             ELSE LET rest == ParseTables(spec, doc, i + 1)
                  IN  IF rest.status = "raise" THEN rest
                      ELSE Parsed(d.rows \o rest.rows, <<d.warn>> \o rest.warns)

NoRawFile ==
    [written |-> FALSE, office |-> <<>>, survey |-> <<>>, epsg |-> <<>>, marker |-> <<>>]

\* write_toml under the configuration c: what became of the call, and the
\* record left in <prefix>_OCR.toml.
WriteRawStage(c, spec, rows) ==
    IF Len(spec) # 3 THEN [status |-> "raise", file |-> NoRawFile]
    ELSE LET t == WriteToml(rows)
             meta == GetMetaAndDeedFromConfig(c)
         IN  IF ~t.written THEN [status |-> "no_numeric", file |-> NoRawFile]
             ELSE IF ~meta.ok THEN [status |-> "fatal", file |-> NoRawFile]
             ELSE [status |-> "written",
                   file |-> [written |-> TRUE, office |-> TomlEscape(meta.office),
                             survey |-> TomlEscape(meta.survey), epsg |-> meta.epsg,
                             marker |-> t.marker]]

\* A body of the loop of process() that gives up the batch on an empty frame.
AfterDocument_StopOnEmpty(p, parsed, w) ==
    IF parsed.status = "raise" THEN [p EXCEPT !.pc = "crashed", !.err = parsed.err]
    ELSE IF parsed.rows = <<>> THEN [p EXCEPT !.pc = "crashed", !.err = "empty"]
    ELSE [p EXCEPT !.pos = @ + 1]

\* The body of the loop of process() once the document is parsed: an
\* exception leaves the loop, an empty frame is skipped with a warning,
\* any other frame goes to write_toml.
AfterDocument(p, parsed, w) ==
    LET i == p.pos + 1
        entry(outcome) == [outcome |-> outcome, warns |-> parsed.warns]
    IN  IF parsed.status = "raise" THEN [p EXCEPT !.pc = "crashed", !.err = parsed.err]
        ELSE IF parsed.rows = <<>>
             THEN [p EXCEPT !.pos = i, !.log = Append(@, entry("skipped"))]
        ELSE IF w.status = "raise" THEN [p EXCEPT !.pc = "crashed", !.err = "ValueError"]
        ELSE IF w.status = "fatal" THEN [p EXCEPT !.pc = "fatal", !.err = "meta"]
        ELSE [p EXCEPT !.pos = i, !.files[i] = w.file,
                       !.log = Append(@, entry(w.status))]

\* main() up to the loop: the processor is constructed, and process() finds
\* the images; without any it exits.
Startup ==
    /\ proc.pc = "new"
    /\ LET l == LoadColumnSpec(proc.cfg)
       IN  proc' = IF ~l.ok THEN [proc EXCEPT !.pc = "fatal", !.err = l.err]
                   ELSE IF proc.batch = <<>>
                        THEN [proc EXCEPT !.pc = "fatal", !.err = "no_images",
                                          !.spec = l.spec]
                   ELSE [proc EXCEPT !.pc = "loop", !.spec = l.spec]
    /\ UNCHANGED notProc

\* One turn of the loop of process(): the next document.
ProcessNext ==
    /\ proc.pc = "loop" /\ proc.pos < Len(proc.batch)
    /\ LET parsed == ParseTables(proc.spec, proc.batch[proc.pos + 1], 1)
           w == WriteRawStage(proc.cfg, proc.spec, parsed.rows)
       IN  proc' = AfterDocument(proc, parsed, w)
    /\ UNCHANGED notProc

\* The loop is over: "[DONE] Processing complete."
Finish ==
    /\ proc.pc = "loop" /\ proc.pos = Len(proc.batch)
    /\ proc' = [proc EXCEPT !.pc = "done"]
    /\ UNCHANGED notProc

\* The tables of the documents tried: no table, markup read_html fails on,
\* a table of three columns with one marker, a table of two columns.
GoodTable ==
    [kind |-> "table", ncols |-> 3,
     rows |-> << << <<"s", "4", "1">>, <<"7", ".", "5">>, <<"8">> >> >>]
TwoColumns ==
    [kind |-> "table", ncols |-> 2,
     rows |-> << << <<"s", "4", "1">>, <<"7", ".", "5">> >> >>]

BatchTables == {NoTable, Unreadable, GoodTable, TwoColumns}

\* A document: no table at all, one table, or two.
DocPool ==
    {<<>>} \cup {<<t>> : t \in BatchTables}
           \cup {<<t, u>> : t \in BatchTables, u \in BatchTables}

\* The most documents of a batch.
MaxDocs == 2

Batches == UNION {[1..n -> DocPool] : n \in 0..MaxDocs}

\* The batches tried under the configurations other than the good one.
SmallBatches ==
    { <<>>, << <<NoTable>> >>, << <<GoodTable>> >>,
      << <<NoTable>>, <<GoodTable>> >>, << <<GoodTable>>, <<GoodTable>> >> }

NewRun(c, b) ==
    [cfg |-> c, batch |-> b, pc |-> "new", err |-> "", spec |-> <<>>, pos |-> 0,
     files |-> [i \in 1..Len(b) |-> NoRawFile], log |-> <<>>]

NoRun == [NewRun(GoodCfg, <<>>) EXCEPT !.pc = "idle"]

ProcIdle == proc = NoRun

ProcInit ==
    proc \in {NewRun(GoodCfg, b) : b \in Batches}
                \cup {NewRun(c, b) : c \in Configs, b \in SmallBatches}

-----------------------------------------------------------------------------
(***************************************************************************)
(* A run of the cadastre script (ParcelCadastre.py): main() loads          *)
(* CONFIG.toml, MarkerLoader reads the marker files under the folder and   *)
(* GPKGWriter writes one marker layer and one parcel layer per group.      *)
(***************************************************************************)

\* The stage files a folder can hold: <dir>/<prefix>_OCR.toml (stage "raw")
\* and <dir>/<prefix>_OCRedit.toml (stage "edit").
CadDocs == {<<"a", "p01">>, <<"a", "p02">>, <<"b", "p01">>}
CadPaths == {[dir |-> d[1], prefix |-> d[2], stage |-> st] : d \in CadDocs, st \in {"raw", "edit"}}

\* An entry of the marker array: its length and its first five elements.
Entry(len, idx, label, name, n, e) ==
    [len |-> len, idx |-> idx, label |-> label, name |-> name, n |-> n, e |-> e]

\* A stage file as tomllib reads it: unreadable, or a document with or
\* without [Deed], its EPSG (0: no such key) and its marker array.
NoToml == [kind |-> "none", deed |-> FALSE, epsg |-> 0, marker |-> <<>>]
BadToml == [kind |-> "unreadable", deed |-> FALSE, epsg |-> 0, marker |-> <<>>]
Toml(epsg, marker) == [kind |-> "toml", deed |-> TRUE, epsg |-> epsg, marker |-> marker]

Text3(a, b, c) == <<a, b, c>>

\* An EPSG value of a deed that int() rejects, such as the text "47N".
BadEpsg == -1

\* Three markers named after tag, at coordinates that start with digit.
ThreeMarkers(tag, digit) ==
    << Entry(5, 1, "A", <<tag, "1">>, Text3(digit, ".", "1"), Text3(digit, ".", "5")),
       Entry(5, 2, "B", <<tag, "2">>, Text3(digit, ".", "2"), Text3(digit, ".", "5")),
       Entry(5, 3, "C", <<tag, "3">>, Text3(digit, ".", "3"), Text3(digit, ".", "6")) >>

\* What a verified-stage file can hold: three markers in zone 48; three
\* markers without EPSG among an entry that is too short and one whose
\* northing is no number; nothing tomllib can read.
EditContents ==
    { Toml(24048, ThreeMarkers("e", "1")),
      Toml(0, <<Entry(4, 1, "A", <<"x">>, <<"1">>, <<>>)>>
                 \o ThreeMarkers("f", "2")
                 \o <<Entry(5, 5, "E", <<"y">>, <<"?">>, <<"2">>)>>),
      Toml(BadEpsg, ThreeMarkers("g", "3")),
      BadToml }

\* What a raw-stage file can hold.
RawContents == {Toml(24047, ThreeMarkers("r", "7")), Toml(24047, ThreeMarkers("s", "8"))}

\* The fallback of RV25JConfig for a deed without EPSG.
DefaultEpsg == 24047

\* CONFIG.toml as the cadastre script reads it.
CadCfg(office, spec, epsg) == [office |-> office, spec |-> spec, epsg |-> epsg]
CadConfigs ==
    { CadCfg(StrVal(<<"N", "a">>), Absent, 24048),
      CadCfg(Absent, Absent, 0),
      CadCfg(StrVal(<<"N", "a">>), Spec3, 24047) }

\* RV25JConfig.__init__: the fields kept of CONFIG.toml.
RV25JConfig(c) ==
    [dol_office |-> c.office,
     toml_spec |-> IF c.spec.type = "absent" THEN Spec5.v ELSE c.spec.v,
     default_epsg |-> IF c.epsg = 0 THEN DefaultEpsg ELSE c.epsg]

\* A file search that takes the stage files of both stages.
TomlFiles_AnyStage(folder) == {p \in CadPaths : folder[p] # NoToml}

\* self.folder.rglob("*_OCRedit.toml")
TomlFiles(folder) == {p \in CadPaths : p.stage = "edit" /\ folder[p] # NoToml}

\* The orders in which a directory walk can list the files S.
RECURSIVE Orders(_)
Orders(S) ==
    IF S = {} THEN {<<>>}
    ELSE UNION {{<<x>> \o o : o \in Orders(S \ {x})} : x \in S}

\* MarkerLoader._file_prefix_from_path: the stem without "_OCRedit".
FilePrefixFromPath(path) ==
    IF path.stage = "edit" THEN <<path.prefix>> ELSE <<path.prefix, "_OCR">>

\* MarkerLoader._extract_epsg_from_toml: the code it returns, for a deed
\* whose EPSG int() accepts (see EpsgRaises for the other).
ExtractEpsgFromToml(data, default_epsg) ==
    IF ~data.deed \/ data.epsg = 0 THEN default_epsg ELSE data.epsg

\* _extract_epsg_from_toml leaves by the ValueError of int(epsg).
EpsgRaises(data) == data.kind = "toml" /\ data.deed /\ data.epsg = BadEpsg

\* MarkerLoader._extract_markers_from_deed: the entries i..Len(marker) of at
\* least five elements whose coordinates float() accepts.
RECURSIVE ExtractMarkersFromDeed(_, _, _)
ExtractMarkersFromDeed(data, toml_spec, i) ==
    IF ~data.deed \/ Len(toml_spec) < 5 \/ i > Len(data.marker) THEN <<>>
    ELSE LET entry == data.marker[i]
         IN  (IF entry.len < 5 \/ FloatRaises(entry.n) \/ FloatRaises(entry.e) THEN <<>>
              ELSE <<[idx |-> entry.idx, label |-> entry.label, name |-> entry.name,
                      n |-> PyFloat(entry.n), e |-> PyFloat(entry.e)]>>)
                \o ExtractMarkersFromDeed(data, toml_spec, i + 1)

\* The rows load_df_id75 collects from the files i..Len(files), in their
\* order: each marker with File and EPSG; path notes the file it came from.
RECURSIVE LoadRows(_, _, _, _)
LoadRows(folder, config, files, i) ==
    IF i > Len(files) THEN <<>>
    ELSE LET chosen == files[i]
             data == folder[chosen]
             marker_rows == IF data.kind # "toml" THEN <<>>
                            ELSE ExtractMarkersFromDeed(data, config.toml_spec, 1)
             epsg == ExtractEpsgFromToml(data, config.default_epsg)
         IN  [k \in 1..Len(marker_rows) |->
                 [File |-> FilePrefixFromPath(chosen), EPSG |-> epsg, path |-> chosen,
                  idx |-> marker_rows[k].idx, label |-> marker_rows[k].label,
                  name |-> marker_rows[k].name,
                  n |-> marker_rows[k].n, e |-> marker_rows[k].e]]
                \o LoadRows(folder, config, files, i + 1)

\* CoordinateTransformer.to_w84_utm over the table: each row with its
\* point transformed and the EPSG of the target.
CadToW84Utm(rows) ==
    [k \in 1..Len(rows) |->
        LET to_utm == Transform(RowEpsgDst(rows[k].EPSG), rows[k].e, rows[k].n)
            nan == rows[k].e.nan \/ rows[k].n.nan
        IN  [rows[k] EXCEPT !.e = [nan |-> nan, axis |-> "E", of |-> to_utm],
                            !.n = [nan |-> nan, axis |-> "N", of |-> to_utm],
                            !.EPSG = RowEpsgDst(@)]]

\* The rows i..Len(rows) of one group, in their order.
RECURSIVE GroupRows(_, _, _)
GroupRows(rows, file, i) ==
    IF i > Len(rows) THEN <<>>
    ELSE (IF rows[i].File = file THEN <<rows[i]>> ELSE <<>>) \o GroupRows(rows, file, i + 1)

\* a != b for two coordinate tuples of two rows: a NaN equals nothing.
TupleNe(a, b) == a[1].nan \/ a[2].nan \/ b[1].nan \/ b[2].nan \/ a # b

\* A ring closed by appending the first vertex in every case.
EnsureClosedRing_Always(coords) ==
    IF Len(coords) > 1 THEN Append(coords, coords[1]) ELSE coords

\* The ring of a parcel: the coordinates, the first repeated at the end
\* when the last differs from it.
EnsureClosedRing(coords) ==
    IF Len(coords) > 1 /\ TupleNe(coords[1], coords[Len(coords)])
    THEN Append(coords, coords[1]) ELSE coords

\* The place of a group key in the sorted order of groupby: the stems in
\* the order of their names, a stem before the same stem with "_OCR".
KeyRank(file) ==
    2 * (CHOOSE i \in 1..2 : <<"p01", "p02">>[i] = file[1]) + (Len(file) - 1)

\* The fewest coordinates Polygon takes for a ring: 3 or 4 with the
\* version of the geometry library.
LeastRing == {3, 4}

\* Polygon(coords) raises: the ring has too few coordinates.
PolygonRaises(coords, least) == Len(coords) < least

\* df.groupby('File'): the keys of the groups.
GroupKeys(rows) == {rows[k].File : k \in 1..Len(rows)}

\* GPKGWriter.write_gpkg: per group the layer marker:<File>, one point per
\* row, and the layer parcel:<File>, the polygon over the ring.
\* Groups are written in the order of their keys, up to and with the marker
\* layer of the first group whose Polygon raises (polygon FALSE).
WriteGpkg(rows, least) ==
    LET coords(file) ==
            LET row == GroupRows(rows, file, 1)
            IN  EnsureClosedRing([k \in 1..Len(row) |-> <<row[k].e, row[k].n>>])
        raising == {g \in GroupKeys(rows) : PolygonRaises(coords(g), least)}
        reached == {file \in GroupKeys(rows) :
                       \A g \in raising : KeyRank(g) >= KeyRank(file)}
    IN  [file \in reached |->
            [marker |-> GroupRows(rows, file, 1),
             parcel |-> coords(file),
             polygon |-> file \notin raising]]

\* A write_gpkg call ended in an exception.
GpkgRaised(layers) == \E file \in DOMAIN layers : ~layers[file].polygon

NoGpkg == [i75 |-> <<>>, w84 |-> <<>>]

\* main() up to the end of MarkerLoader.load_df_id75, the files listed in
\* one of the orders a directory walk can give.
CadLoad ==
    /\ cad.pc = "new"
    /\ LET config == RV25JConfig(cad.cfg)
       IN  \E files \in Orders(TomlFiles(cad.folder)) :
              LET all_rows == LoadRows(cad.folder, config, files, 1)
              IN  cad' = IF files = <<>>
                         THEN [cad EXCEPT !.pc = "failed", !.err = "FileNotFoundError"]
                         ELSE IF \E i \in 1..Len(files) : EpsgRaises(cad.folder[files[i]])
                         THEN [cad EXCEPT !.pc = "failed", !.err = "ValueError"]
                         ELSE IF all_rows = <<>>
                         THEN [cad EXCEPT !.pc = "failed", !.err = "RuntimeError"]
                         ELSE [cad EXCEPT !.pc = "loaded", !.df = all_rows]
    /\ UNCHANGED notCad

\* The rest of MarkerProcessor.run: the table transformed and the two
\* containers written.
CadWrite ==
    /\ cad.pc = "loaded"
    /\ \E least \in LeastRing :
          LET i75 == WriteGpkg(cad.df, least)
          IN  cad' = IF GpkgRaised(i75)
                     THEN [cad EXCEPT !.pc = "crashed", !.err = "ValueError",
                                      !.gpkg = [i75 |-> i75, w84 |-> <<>>]]
                     ELSE [cad EXCEPT !.pc = "written",
                                      !.gpkg = [i75 |-> i75,
                                                w84 |-> WriteGpkg(CadToW84Utm(cad.df), least)]]
    /\ UNCHANGED notCad

\* The extraction script writes the raw-stage file of a document anew.
CadChangeRaw(d, content) ==
    /\ d \in CadDocs /\ content \in RawContents
    /\ LET p == [dir |-> d[1], prefix |-> d[2], stage |-> "raw"]
       IN  /\ cad.folder[p] # content
           /\ cad' = [cad EXCEPT !.folder[p] = content]
    /\ UNCHANGED notCad

\* The folders tried: per document a raw-stage file or none, and a
\* verified-stage file or none.
CadFolders ==
    { f \in [CadPaths -> {NoToml} \cup EditContents \cup RawContents] :
        \A p \in CadPaths :
            /\ p.stage = "raw" => f[p] \in {NoToml, Toml(24047, ThreeMarkers("r", "7"))}
            /\ p.stage = "edit" => f[p] \in {NoToml} \cup EditContents }

\* The folders of the rings: a/p01_OCRedit.toml holds up to MaxGroupMarkers
\* markers at vertices of a pool, one of them with a NaN northing, and
\* a/p02_OCRedit.toml is absent or holds three markers.
MaxGroupMarkers == 4

RingVertices == {Text3("1", ".", "1"), Text3("1", ".", "2"), NanText}

RingContents ==
    UNION { { Toml(24047, [i \in 1..k |->
                             Entry(5, i, "A", <<"m">>, v[i], Text3("1", ".", "5"))]) :
                v \in [1..k -> RingVertices] } : k \in 1..MaxGroupMarkers }

RingFolders ==
    { [p \in CadPaths |->
          IF p = [dir |-> "a", prefix |-> "p01", stage |-> "edit"] THEN c
          ELSE IF p = [dir |-> "a", prefix |-> "p02", stage |-> "edit"] THEN d
          ELSE NoToml] :
        c \in RingContents, d \in {NoToml, Toml(24048, ThreeMarkers("e", "1"))} }

NewCad(c, f) == [cfg |-> c, folder |-> f, pc |-> "new", err |-> "", df |-> <<>>, gpkg |-> NoGpkg]

NoCad == [NewCad(CadCfg(Absent, Absent, 0), [p \in CadPaths |-> NoToml]) EXCEPT !.pc = "idle"]

CadIdle == cad = NoCad

CadInit == cad \in {NewCad(c, f) : c \in CadConfigs, f \in CadFolders}

RingInit == cad \in {NewCad(CadCfg(StrVal(<<"N", "a">>), Absent, 24047), f) : f \in RingFolders}

-----------------------------------------------------------------------------
(***************************************************************************)
(* The image panel (ImageSelect.py): an image shown at a scale, a          *)
(* rectangle dragged with the mouse, and the <base>_rect.json file the     *)
(* release of the button writes.                                           *)
(***************************************************************************)

None == "None"

\* The image files: two that open, of these sizes, and one that is missing.
RoiImages == {"a", "b"}
GoneImage == "gone"
ImageSize(img) == IF img = "a" THEN [width |-> 8, height |-> 4]
                  ELSE [width |-> 4, height |-> 4]

\* The scales: the zoom buttons 1:1, 1:2, 1:4 and a view_scale of 2 from
\* the configuration, as num / den.
Scale(num, den) == [num |-> num, den |-> den]
Scales == {Scale(1, 1), Scale(1, 2), Scale(1, 4), Scale(2, 1)}

\* The canvas coordinates of the mouse events tried: left of the image,
\* inside it and beyond it.
RoiPoints == {<<-1, 0>>, <<3, 2>>, <<9, 5>>}

\* int(a / b) for b > 0: the quotient cut towards zero.
TruncDiv(a, b) == IF a >= 0 THEN a \div b ELSE -((-a) \div b)

\* int(c / self.scale_factor)
ToOriginal(c, scale) == TruncDiv(c * scale.den, scale.num)

\* max(0, min(hi, v))
Clamp(v, hi) == IF v < 0 THEN 0 ELSE Min(hi, v)

NoRoiFile == [written |-> FALSE]

\* _convert_to_original_coords and the data of save_rect_to_json.
RectData(img, scale, rect) ==
    LET x_min == Min(rect[1], rect[3])
        y_min == Min(rect[2], rect[4])
        x_max == IF rect[1] > rect[3] THEN rect[1] ELSE rect[3]
        y_max == IF rect[2] > rect[4] THEN rect[2] ELSE rect[4]
    IN  [written |-> TRUE, source_image |-> img, scale_factor_at_selection |-> scale,
         original_x_min |-> x_min, original_y_min |-> y_min,
         original_x_max |-> x_max, original_y_max |-> y_max,
         width |-> x_max - x_min, height |-> y_max - y_min]

\* A release that converts and clamps only the first corner.
MouseUpRect_FirstCornerOnly(size, scale, start, end) ==
    << Clamp(ToOriginal(Min(start[1], end[1]), scale), size.width),
       Clamp(ToOriginal(Min(start[2], end[2]), scale), size.height),
       ToOriginal(IF start[1] > end[1] THEN start[1] ELSE end[1], scale),
       ToOriginal(IF start[2] > end[2] THEN start[2] ELSE end[2], scale) >>

\* on_mouse_up: the corners ordered on the canvas, converted to pixels of
\* the original image and clamped to the image.
MouseUpRect(size, scale, start, end) ==
    << Clamp(ToOriginal(Min(start[1], end[1]), scale), size.width),
       Clamp(ToOriginal(Min(start[2], end[2]), scale), size.height),
       Clamp(ToOriginal(IF start[1] > end[1] THEN start[1] ELSE end[1], scale), size.width),
       Clamp(ToOriginal(IF start[2] > end[2] THEN start[2] ELSE end[2], scale), size.height) >>

\* load_image(path): a missing file clears the panel; an image that opens
\* is shown at scale 1 with the selection of its <base>_rect.json, if any.
LoadImage(img) ==
    /\ roi.pc = "run"
    /\ roi' = IF img = GoneImage
              THEN [roi EXCEPT !.image = None, !.start = None, !.rect = None,
                               !.last = "load"]
              ELSE [roi EXCEPT !.image = img, !.start = None, !.scale = Scale(1, 1),
                               !.rect = IF roi.files[img].written
                                        THEN << roi.files[img].original_x_min,
                                                roi.files[img].original_y_min,
                                                roi.files[img].original_x_max,
                                                roi.files[img].original_y_max >>
                                        ELSE None,
                               !.last = "load"]
    /\ UNCHANGED notRoi

\* set_scale(scale): nothing without an image; the image redrawn at the
\* scale and the selection drawn again from its stored coordinates.
SetScale(scale) ==
    /\ roi.pc = "run"
    /\ roi' = IF roi.image = None THEN [roi EXCEPT !.last = "scale"]
              ELSE [roi EXCEPT !.scale = scale, !.last = "scale"]
    /\ UNCHANGED notRoi

\* on_mouse_down: the selection cleared and the drag started.
OnMouseDown(p) ==
    /\ roi.pc = "run"
    /\ roi' = IF roi.image = None THEN [roi EXCEPT !.last = "down"]
              ELSE [roi EXCEPT !.start = p, !.rect = None, !.last = "down"]
    /\ UNCHANGED notRoi

\* on_mouse_up: nothing without an image; TypeError without a drag started
\* (min of None and a number); else the selection stored and saved by
\* save_selection into the <base>_rect.json of the image.
OnMouseUp(p) ==
    /\ roi.pc = "run"
    /\ roi' = IF roi.image = None THEN [roi EXCEPT !.last = "up"]
              ELSE IF roi.start = None THEN [roi EXCEPT !.last = "up_raised"]
              ELSE LET rect == MouseUpRect(ImageSize(roi.image), roi.scale, roi.start, p)
                   IN  [roi EXCEPT !.rect = rect,
                                   !.files[roi.image] = RectData(roi.image, roi.scale, rect),
                                   !.last = "up"]
    /\ UNCHANGED notRoi

NoRoi == [pc |-> "idle", image |-> None, scale |-> Scale(1, 1), start |-> None,
          rect |-> None, files |-> [img \in RoiImages |-> NoRoiFile], last |-> ""]

RoiIdle == roi = NoRoi

\* ImageSelect.__init__
RoiInit == roi = [NoRoi EXCEPT !.pc = "run"]

-----------------------------------------------------------------------------
(***************************************************************************)
(* The image range filter (RV25jProcessor.filter_images): the option       *)
(* -i/--images 'start,end' applied to the sorted list of images.           *)
(***************************************************************************)

\* str.split(","): the parts of t between its commas.
RECURSIVE SplitComma(_)
SplitComma(t) ==
    LET comma == IndexOf(t, ",", 1)
    IN  IF comma = 0 THEN <<t>>
        ELSE <<SubSeq(t, 1, comma - 1)>> \o SplitComma(SubSeq(t, comma + 1, Len(t)))

\* int(text.strip()): an optional sign and digits, ValueError otherwise.
PyInt(text) ==
    LET t == Strip(text)
        signed == t # <<>> /\ Head(t) \in {"+", "-"}
        digits == IF signed THEN Tail(t) ELSE t
    IN  IF ~IsDigits(digits) THEN [ok |-> FALSE, v |-> 0]
        ELSE [ok |-> TRUE,
              v |-> IF signed /\ Head(t) = "-" THEN -DigitsToNat(digits)
                    ELSE DigitsToNat(digits)]

\* The option not given: range_str is None.
NoRange == <<"None">>

RangeExit == [exit |-> 1, out |-> <<>>]
RangeOut(subset) == [exit |-> 0, out |-> subset]

\* A slice that takes the start as a 0-based index.
Slice_FromStart(images, start_idx, end_idx) ==
    [k \in 1..(end_idx - start_idx) |-> images[start_idx + k]]

\* images[start_idx-1 : end_idx] for 1 <= start_idx <= end_idx <= len(images)
Slice(images, start_idx, end_idx) ==
    [k \in 1..(end_idx - start_idx + 1) |-> images[start_idx - 1 + k]]

\* filter_images(images, range_str): the images kept, or SystemExit(1).
FilterImages(images, range_str) ==
    IF range_str = NoRange \/ range_str = <<>> THEN RangeOut(images)
    ELSE LET parts == SplitComma(range_str)
             first == PyInt(parts[1])
             second == IF Len(parts) = 1 THEN first ELSE PyInt(parts[2])
             start_idx == IF first.v < 1 THEN 1 ELSE first.v
             end_idx == IF second.v > Len(images) THEN Len(images) ELSE second.v
         IN  IF Len(parts) > 2 \/ ~first.ok \/ ~second.ok THEN RangeExit
             ELSE IF start_idx > end_idx THEN RangeOut(<<>>)
             ELSE RangeOut(Slice(images, start_idx, end_idx))

\* The call filter_images(images, range_str).
CallFilterImages ==
    /\ rng.pc = "call"
    /\ rng' = [rng EXCEPT !.pc = "done", !.res = FilterImages(rng.images, rng.range)]
    /\ UNCHANGED notRng

\* The lists of up to MaxImages images and the range texts of up to
\* MaxRangeLen characters tried, with 'no range' and a range of three parts.
MaxImages == 3
MaxRangeLen == 4
RangeChars == {"1", "3", "-", ",", " ", "x"}
ThreeParts == <<"1", ",", "2", ",", "3">>
RangeTexts == TextsUpTo(RangeChars, MaxRangeLen) \cup {NoRange, ThreeParts}

NewRng(images, range_str) ==
    [pc |-> "call", images |-> images, range |-> range_str, res |-> RangeOut(<<>>)]

\* The call of filter_images not made.
NoRng == [NewRng(<<>>, NoRange) EXCEPT !.pc = "idle"]

RngIdle == rng = NoRng

RngInit == rng \in {NewRng([i \in 1..n |-> i], t) : n \in 0..MaxImages, t \in RangeTexts}

-----------------------------------------------------------------------------
\* The record store and the editor panel over it.
StoreNext ==
    \/ \E d \in Docs, t \in OcrTexts : WriteRaw(d, t)
    \/ \E d \in Docs : LoadFiles(d)
    \/ \E t \in UserTexts : TypeText(t)
    \/ OnSaveOrEditClick
    \/ SaveEditedToml

InitStore == StoreInit /\ CrsInit /\ FloatIdle /\ ExIdle /\ ProcIdle /\ CadIdle /\ RoiIdle /\ RngIdle

SpecStore == InitStore /\ [][StoreNext]_vars

\* The CRS factory under requests and table transformations.
CrsNext ==
    \/ \E name \in CacheNames, epsg \in Codes : Request(name, epsg)
    \/ \E df_id75 \in CrsTables : ToWgs84(df_id75)
    \/ \E df_id75 \in CrsTables : ToW84Utm(df_id75)

InitCrs == StoreInit /\ CrsInit /\ FloatIdle /\ ExIdle /\ ProcIdle /\ CadIdle /\ RoiIdle /\ RngIdle

SpecCrs == InitCrs /\ [][CrsNext]_vars


\* safe_float over every argument tried.
FloatNext == CallSafeFloat

InitFloat == StoreInit /\ CrsInit /\ FloatInit /\ ExIdle /\ ProcIdle /\ CadIdle /\ RoiIdle /\ RngIdle

SpecFloat == InitFloat /\ [][FloatNext]_vars

\* One document through extraction and the raw-stage writer.
ExNext == ProcessDocument

InitExtract == StoreInit /\ CrsInit /\ FloatIdle /\ ExInit /\ ProcIdle /\ CadIdle /\ RoiIdle /\ RngIdle

SpecExtract == InitExtract /\ [][ExNext]_vars

\* write_toml over frames of up to MaxFrameRows rows.
WriteNext == CallWriteToml

InitWrite == StoreInit /\ CrsInit /\ FloatIdle /\ WriteInit /\ ProcIdle /\ CadIdle /\ RoiIdle /\ RngIdle

SpecWrite == InitWrite /\ [][WriteNext]_vars

\* A run of the extraction script over a batch of documents.
BatchNext ==
    \/ Startup
    \/ ProcessNext
    \/ Finish

InitBatch == StoreInit /\ CrsInit /\ FloatIdle /\ ExIdle /\ ProcInit /\ CadIdle /\ RoiIdle /\ RngIdle

SpecBatch == InitBatch /\ [][BatchNext]_vars

\* A run of the cadastre script over a folder of stage files.
CadNext ==
    \/ CadLoad
    \/ CadWrite
    \/ \E d \in CadDocs, content \in RawContents : CadChangeRaw(d, content)

InitCad == StoreInit /\ CrsInit /\ FloatIdle /\ ExIdle /\ ProcIdle /\ CadInit /\ RoiIdle /\ RngIdle

SpecCad == InitCad /\ [][CadNext]_vars

\* A run of the cadastre script over the folders of the rings.
RingNext ==
    \/ CadLoad
    \/ CadWrite

InitRing == StoreInit /\ CrsInit /\ FloatIdle /\ ExIdle /\ ProcIdle /\ RingInit /\ RoiIdle /\ RngIdle

SpecRing == InitRing /\ [][RingNext]_vars

\* The image panel under loads, zoom changes and drags.
RoiNext ==
    \/ \E img \in RoiImages \cup {GoneImage} : LoadImage(img)
    \/ \E scale \in Scales : SetScale(scale)
    \/ \E p \in RoiPoints : OnMouseDown(p)
    \/ \E p \in RoiPoints : OnMouseUp(p)

InitRoi == StoreInit /\ CrsInit /\ FloatIdle /\ ExIdle /\ ProcIdle /\ CadIdle /\ RoiInit /\ RngIdle

SpecRoi == InitRoi /\ [][RoiNext]_vars

\* A call of the image range filter.
RngNext ==
    \/ CallFilterImages

InitRng == StoreInit /\ CrsInit /\ FloatIdle /\ ExIdle /\ ProcIdle /\ CadIdle /\ RoiIdle /\ RngInit

SpecRng == InitRng /\ [][RngNext]_vars

-----------------------------------------------------------------------------
(***************************************************************************)
(* The properties checked.                                                 *)
(***************************************************************************)

\* C1: copy-forward on first touch.  A load of a document whose raw-stage
\* file exists and whose verified-stage file does not leaves a
\* verified-stage file on disk with exactly the raw-stage text, leaves the
\* raw-stage file as it was, and ends with that text in the (disabled)
\* verification editor, as a load that did not fail does.
C1_CopyForward ==
    (storeLog.op = "load" /\ storeLog.rawPre # NoFile /\ storeLog.editPre = NoFile)
        => /\ editFile[storeLog.doc] # NoFile
           /\ editFile[storeLog.doc] = storeLog.rawPre
           /\ rawFile[storeLog.doc] = storeLog.rawPre
           /\ editText = storeLog.rawPre
           /\ editState = "disabled"

\* A load has just copied the raw-stage text b of p02 forward.
C1_Witness ==
    /\ storeLog.op = "load" /\ storeLog.doc = "p02"
    /\ storeLog.rawPre = <<"b">> /\ storeLog.editPre = NoFile
    /\ editFile["p02"] = <<"b">>

\* C2: transformer caching.  No key of any of the four caches is built more
\* than once, every request answers with the instance the first request for
\* that key answered with, and every row of a transformed table used that
\* first instance.
C2_TransformerCaching ==
    /\ \A c \in CacheNames, e \in Codes : fac.built[c][e] <= 1
    /\ (crsLog.op \in CacheNames /\ crsLog.ok)
          => crsLog.id = crsLog.first[crsLog.op][crsLog.code]
    /\ \A i \in 1..Len(crsLog.out) :
          crsLog.out[i].tr =
              crsLog.first[IF crsLog.op = "to_wgs84" THEN "tr" ELSE "w84tr"][crsLog.out[i].src]

\* A transformer to WGS84-UTM is requested again for a code and answered.
C2_Witness ==
    /\ crsLog.op = "w84tr" /\ crsLog.again /\ crsLog.ok
    /\ crsLog.id = crsLog.first["w84tr"][crsLog.code]

\* The fixed target table of the specification.
TargetOf(e) ==
    CASE e = 24047 -> 32647
      [] e = 32647 -> 32647
      [] e = 24048 -> 32648
      [] e = 32648 -> 32648
      [] OTHER -> e

\* C3: the WGS84-UTM target mapping.  The target CRS cached for a source
\* code, and the target of the transformer cached for it, carry the code of
\* the fixed table; the EPSG to_w84_utm records for a row is the code of the
\* target CRS of the transformer used for that row.
C3_TargetMapping ==
    /\ \A e \in Codes :
          /\ fac.cache["w84crs"][e] # 0
                => fac.heap[fac.cache["w84crs"][e]].epsg = TargetOf(e)
          /\ fac.cache["w84tr"][e] # 0
                => fac.heap[fac.heap[fac.cache["w84tr"][e]].dst].epsg = TargetOf(e)
    /\ crsLog.op = "to_w84_utm"
          => \A i \in 1..Len(crsLog.out) :
                /\ crsLog.out[i].epsg = fac.heap[fac.heap[crsLog.out[i].tr].dst].epsg
                /\ crsLog.out[i].epsg = TargetOf(crsLog.out[i].src)

\* A row of zone 47 of the legacy datum was transformed and recorded as 32647.
C3_Witness ==
    /\ crsLog.op = "to_w84_utm" /\ crsLog.ok /\ Len(crsLog.out) = 1
    /\ crsLog.out[1].src = 24047 /\ crsLog.out[1].epsg = 32647


\* C8: numeric cleaning.  safe_float answers NaN, and never raises, for a
\* value that is no string and for a text without any digit (empty, blank,
\* unparseable); for every other text it answers the number written by the
\* digits of the text in their order, with as many decimals as there are
\* digits after the first dot: every other character is dropped and every
\* later dot is noise.  "711,049..218" gives 711049.218.
C8_NumericCleaning ==
    sfOut # NotCalled =>
        LET digits == {DigitChars[d] : d \in 1..10}
            ds == Filter(sfIn, digits)
            dot == IndexOf(sfIn, ".", 1)
            decimals == IF dot = 0 THEN 0
                        ELSE Len(Filter(SubSeq(sfIn, dot + 1, Len(sfIn)), digits))
        IN  /\ (sfIn = Missing \/ ds = <<>>) => sfOut = NaN
            /\ (sfIn # Missing /\ ds # <<>>) => sfOut = Dec(DigitsToNat(ds), decimals)
            /\ sfIn = MultiDotText => sfOut = Num(711049218, 3)

\* The multi-dot text was cleaned to 711049.218.
C8_Witness == sfIn = MultiDotText /\ sfOut = Num(711049218, 3)


\* The table of the end-to-end scenario as read_html hands it over: the
\* marker, four columns without any text, then N_M, N_F, E_M, E_F.
C4_Table ==
    [kind |-> "table", ncols |-> 9,
     rows |-> << << <<"s", "4", "1">>, Missing, Missing, Missing, Missing,
                    <<"7", "1", "1", "0", "4", "2">>, <<"7", "2", "3">>,
                    <<"8", "1", "0", "2", "9", "3">>, <<"8", "0", "7">> >> >>]

\* C4: end-to-end extraction.  For the raw table whose columns are the
\* marker, four entirely blank columns, N_M, N_F, E_M and E_F, the row
\* ["s41","","","","","711042","723","810293","807"] yields the one marker
\* {s41, 711042.723, 810293.807}.  The program does not do this: the blank
\* columns are dropped first, five columns remain, and the last two, E_M and
\* E_F, are taken as northing and easting.
C4_EndToEnd ==
    (exPc # "input" /\ md = C4_Table) =>
        /\ Len(df.rows) = 1
        /\ df.rows[1].name = <<"s", "4", "1">>
        /\ df.rows[1].n = <<"7", "1", "1", "0", "4", "2", ".", "7", "2", "3">>
        /\ df.rows[1].e = <<"8", "1", "0", "2", "9", "3", ".", "8", "0", "7">>


\* The normalized cell of row i in the c-th column left after the drop.
C5_Cell(i, c) == Normalize(md.rows[i][df.kept[c]])

C6_BlankCell(x) == x = Missing \/ \A i \in 1..Len(x) : x[i] \in {" ", "\n", "\t", Nbsp}

\* C6: blank-column removal.  The columns dropped are exactly those whose
\* every cell is empty after normalization; a column with one cell that is
\* not empty is never dropped, and the columns left keep their order.
C6_BlankColumnRemoval ==
    (exPc # "input" /\ md.kind = "table") =>
        /\ {df.kept[j] : j \in 1..Len(df.kept)}
              = {c \in 1..md.ncols :
                    \E i \in 1..Len(md.rows) : ~C6_BlankCell(md.rows[i][c])}
        /\ \A j \in 1..(Len(df.kept) - 1) : df.kept[j] < df.kept[j + 1]

\* Columns were dropped from the middle of a table of two rows, and a
\* column with an empty cell in one row only was kept.
C6_Witness ==
    /\ exPc # "input" /\ md.kind = "table" /\ Len(md.rows) = 2
    /\ Len(df.kept) >= 3 /\ Len(df.kept) < md.ncols
    /\ \E j \in 1..(Len(df.kept) - 1) : df.kept[j + 1] > df.kept[j] + 1
    /\ \E j \in 1..Len(df.kept) : \E i \in 1..2 : md.rows[i][df.kept[j]] = Missing


\* C7: OCR confusion correction.  No marker name of the extraction output
\* contains any of O, o, I, i, l, L: each was replaced by 0 or 1.  The program
\* does not do this: the replacement is written in a branch that no column
\* reaches, and names leave extraction as they were read.
C7_ConfusionCorrected ==
    (exPc # "input" /\ df.status = "ok") =>
        \A j \in 1..Len(df.rows) :
            \A i \in 1..Len(df.rows[j].name) :
                df.rows[j].name[i] \notin {"O", "o", "I", "i", "l", "L"}


\* C9: no extracted marker lacks both coordinates.  Neither the result of
\* parse_markdown_table nor the record written from it holds a row whose
\* northing and easting are both missing; the rows of the table with both
\* coordinates missing are dropped, every row with at least one coordinate
\* is kept, and the rows kept stay in the order of the table.
C9_NoMarkerWithoutCoordinates ==
    (exPc # "input" /\ df.status = "ok") =>
        /\ \A j \in 1..Len(df.rows) : ~(df.rows[j].n = NanText /\ df.rows[j].e = NanText)
        /\ \A j \in 1..Len(toml.marker) :
              ~(toml.marker[j].n = NanText /\ toml.marker[j].e = NanText)
        /\ {df.rows[j].src : j \in 1..Len(df.rows)}
              = {i \in 1..Len(df.coords) : ~df.coords[i].n.nan \/ ~df.coords[i].e.nan}
        /\ \A j \in 1..(Len(df.rows) - 1) : df.rows[j].src < df.rows[j + 1].src

\* Of two rows, the one without any coordinate was dropped and the one with
\* a single coordinate was kept and written.
C9_Witness ==
    /\ exPc = "written" /\ Len(df.coords) = 2 /\ Len(df.rows) = 1
    /\ \E i \in 1..2 : df.coords[i].n.nan /\ df.coords[i].e.nan
    /\ df.coords[df.rows[1].src].n.nan /\ ~df.coords[df.rows[1].src].e.nan


C10_Letters ==
    <<"A", "B", "C", "D", "E", "F", "G", "H", "I", "J", "K", "L", "M",
      "N", "O", "P", "Q", "R", "S", "T", "U", "V", "W", "X", "Y", "Z">>

C10_Digit == <<"0", "1", "2", "3", "4", "5", "6", "7", "8", "9">>

\* C10: sequence and label of the raw-stage record.  The i-th marker tuple
\* written by write_toml, counted from 1 over the rows written in the order
\* of the table, has sequence i, so sequences are unique and contiguous, and
\* its label is the i-th capital letter for i <= 26 and "P" followed by i
\* beyond.  The rows written are those whose coordinates are numbers.
C10_SequenceAndLabel ==
    exPc \in {"written", "no_numeric"} =>
        /\ toml.written = (Len(toml.marker) > 0)
        /\ \A i \in 1..Len(toml.marker) :
              /\ toml.marker[i].seq = i
              /\ i <= 26 => toml.marker[i].label = <<C10_Letters[i]>>
              /\ (i > 26 /\ i < 100) =>
                    toml.marker[i].label
                        = <<"P", C10_Digit[(i \div 10) + 1], C10_Digit[(i % 10) + 1]>>
        /\ \A i \in 1..(Len(toml.marker) - 1) : toml.marker[i].src < toml.marker[i + 1].src
        /\ {toml.marker[i].src : i \in 1..Len(toml.marker)}
              = {j \in 1..Len(df.rows) : df.rows[j].n # <<>> /\ df.rows[j].e # <<>>}

\* 27 markers were written, the last of them labelled P27, from a frame of
\* which one row was skipped.
C10_Witness ==
    /\ exPc = "written" /\ Len(df.rows) = 28 /\ Len(toml.marker) = 27
    /\ toml.marker[26].label = <<"Z">>
    /\ toml.marker[27].label = <<"P", "2", "7">>


\* Two coordinate texts less than 0.001 apart (texts of at most 4 decimals).
C11_Near(a, b) ==
    LET x == PyFloat(a)
        y == PyFloat(b)
        u == x.m * Pow10(4 - x.s)
        v == y.m * Pow10(4 - y.s)
    IN  ~x.nan /\ ~y.nan /\ u - v < 10 /\ v - u < 10

\* C11: closure detection.  When the first and the last marker handed to
\* write_toml have the same name and both coordinates less than 0.001 apart,
\* the duplicate terminal marker is removed before the record is stored;
\* otherwise all markers are stored.  The program does not do this:
\* write_toml stores every vertex and writes no closure flag.
C11_ClosureDetection ==
    (exPc = "written" /\ Len(df.rows) >= 2
        /\ \A i \in 1..Len(df.rows) : df.rows[i].n # <<>> /\ df.rows[i].e # <<>>) =>
        LET first == df.rows[1]
            last == df.rows[Len(df.rows)]
            closed == /\ first.name = last.name
                      /\ C11_Near(first.n, last.n)
                      /\ C11_Near(first.e, last.e)
        IN  Len(toml.marker) = IF closed THEN Len(df.rows) - 1 ELSE Len(df.rows)


\* Every table of the document is markup without a table.
C12_NoTableOnly(doc) == doc # <<>> /\ \A j \in 1..Len(doc) : doc[j] = NoTable

\* What the claim says of the documents without a table: each one passed
\* was skipped with the "no table" warning and left no raw-stage file, and
\* the run never ends on one.
C12_Recovered ==
    /\ \A i \in 1..proc.pos :
          C12_NoTableOnly(proc.batch[i]) =>
              /\ proc.log[i].outcome = "skipped"
              /\ \A j \in 1..Len(proc.log[i].warns) : proc.log[i].warns[j] = "no_table"
              /\ proc.files[i] = NoRawFile
    /\ (proc.pc \in {"crashed", "fatal"} /\ proc.err \notin {"no_images"}
            /\ proc.pos < Len(proc.batch) /\ LoadColumnSpec(proc.cfg).ok)
          => ~C12_NoTableOnly(proc.batch[proc.pos + 1])

C13_FailureIsolation ==
    (proc.pc # "idle" /\ proc.cfg = GoodCfg) =>
        /\ proc.pc # "crashed"
        /\ proc.pc = "done" => proc.pos = Len(proc.batch)


\* C14: a missing column specification is fatal at startup.  Without a
\* readable config.toml, or without [META].COLUMN_SPEC in it, the run ends
\* in the constructor: no document is processed and no stage file written.
C14_MissingColumnSpecFatal ==
    (proc.pc # "idle" /\ (proc.cfg.file # "ok" \/ proc.cfg.spec = Absent)) =>
        /\ proc.pc \in {"new", "fatal"}
        /\ proc.pc = "fatal" => proc.err # "no_images"
        /\ proc.pos = 0 /\ proc.log = <<>>
        /\ \A i \in 1..Len(proc.batch) : proc.files[i] = NoRawFile

\* A run over two documents ended in the constructor for want of COLUMN_SPEC.
C14_Witness ==
    /\ proc.pc = "fatal" /\ proc.cfg.file = "ok" /\ proc.cfg.spec = Absent
    /\ Len(proc.batch) = 2 /\ proc.pos = 0


\* The tuples written for a document of the one good table.
C15_Mapped(file) ==
    /\ file.written /\ Len(file.marker) = 1
    /\ file.marker[1].name = <<"s", "4", "1">>
    /\ file.marker[1].n = <<"7", ".", "5", "0", "0">>
    /\ file.marker[1].e = <<"8", ".", "0", "0", "0">>

C16_IdentityMissing(c) ==
    \/ c.office.type # "str" \/ Strip(c.office.v) = <<>>
    \/ c.survey.type # "str" \/ Strip(c.survey.v) = <<>>

\* C16: identity fields are never silently defaulted.  A missing or blank
\* office name or survey type ends the run at startup, before any document
\* is processed.  The extraction script does not do this: it reads the two
\* fields in write_toml, after the first documents have been processed.
C16_IdentityFatalAtStartup ==
    (proc.pc # "idle" /\ C16_IdentityMissing(proc.cfg)) =>
        /\ proc.pc \in {"new", "fatal"}
        /\ proc.pos = 0


\* C17: a write is a full overwrite.  After write_toml has written a
\* raw-stage file, or save_edited_toml a verified-stage file, the file holds
\* exactly the content just produced and nothing of what it held before,
\* whatever that was.
C17_FullOverwrite ==
    /\ storeLog.op = "extract" => rawFile[storeLog.doc] = storeLog.text
    /\ storeLog.op = "save" =>
          /\ editFile[storeLog.doc] = storeLog.text
          /\ storeLog.text = GetContent(editText)

\* A save replaced a verified-stage file that held another text.
C17_Witness ==
    /\ storeLog.op = "save"
    /\ storeLog.editPre # NoFile /\ storeLog.editPre # storeLog.text
    /\ editFile[storeLog.doc] = storeLog.text


\* C18: transformation never mutates its input.  After to_wgs84 or
\* to_w84_utm the marker table passed in has the rows, coordinates and EPSG
\* values it had before the call; the transformed coordinates and the
\* target EPSG are in the table returned, one row per row of the input.
C18_InputUntouched ==
    crsLog.op \in {"to_wgs84", "to_w84_utm"} =>
        /\ crsLog.inp = crsLog.arg
        /\ crsLog.ok =>
              /\ Len(crsLog.out) = Len(crsLog.arg)
              /\ \A i \in 1..Len(crsLog.out) :
                    /\ crsLog.out[i].pt.e = crsLog.arg[i].e
                    /\ crsLog.out[i].pt.n = crsLog.arg[i].n
                    /\ crsLog.out[i].src = crsLog.arg[i].epsg
                    /\ crsLog.op = "to_wgs84" => crsLog.out[i].epsg = crsLog.arg[i].epsg

\* A row of zone 47 was transformed to WGS84-UTM: the table returned holds
\* 32647, the table passed in still holds 24047.
C18_Witness ==
    /\ crsLog.op = "to_w84_utm" /\ crsLog.ok /\ Len(crsLog.arg) = 1
    /\ crsLog.arg[1].epsg = 24047 /\ crsLog.inp[1].epsg = 24047
    /\ crsLog.out[1].epsg = 32647


\* The verified-stage files of a folder alone.
C19_VerifiedStage(folder) ==
    [p \in CadPaths |-> IF p.stage = "edit" THEN folder[p] ELSE NoToml]

\* The documents with a raw-stage file and no verified-stage file.
C19_RawOnly(folder) ==
    {d \in CadDocs : /\ folder[[dir |-> d[1], prefix |-> d[2], stage |-> "raw"]] # NoToml
                     /\ folder[[dir |-> d[1], prefix |-> d[2], stage |-> "edit"]] = NoToml}

\* C19: only the verified stage feeds georeferencing: every row loaded comes
\* from a *_OCRedit.toml file, a document with a raw-stage file and no
\* verified-stage file has no row, and the table loaded is one the
\* verified-stage files alone give, whatever the raw-stage files hold.
C19_VerifiedStageOnly ==
    cad.pc \in {"loaded", "written"} =>
        /\ \A k \in 1..Len(cad.df) : cad.df[k].path.stage = "edit"
        /\ \A d \in C19_RawOnly(cad.folder) : \A k \in 1..Len(cad.df) :
              <<cad.df[k].path.dir, cad.df[k].path.prefix>> # d
        /\ \E files \in Orders(TomlFiles(C19_VerifiedStage(cad.folder))) :
              cad.df = LoadRows(C19_VerifiedStage(cad.folder), RV25JConfig(cad.cfg), files, 1)
        /\ cad.pc = "written" =>
              \A file \in DOMAIN cad.gpkg.i75 : \A k \in 1..Len(cad.gpkg.i75[file].marker) :
                  cad.gpkg.i75[file].marker[k].path.stage = "edit"

\* C19 witness: a run has written its output over a folder where a document
\* has only a raw-stage file and where a raw-stage file was written anew.
C19_Witness ==
    /\ cad.pc = "written"
    /\ cad.df # <<>>
    /\ C19_RawOnly(cad.folder) # {}
    /\ \E p \in CadPaths : /\ p.stage = "raw"
                           /\ cad.folder[p] = Toml(24047, ThreeMarkers("s", "8"))

\* C20: grouping by source document: every group written holds the markers
\* of exactly one verified-stage file, one point per marker of that file,
\* and no group holds markers of two files.
C20_GroupingBySourceDocument ==
    cad.pc = "written" =>
        \A file \in DOMAIN cad.gpkg.i75 :
            \E p \in TomlFiles(cad.folder) :
                cad.gpkg.i75[file].marker = LoadRows(cad.folder, RV25JConfig(cad.cfg), <<p>>, 1)


\* The ring the claim gives for the coordinates of a group: the first vertex
\* appended when the first and the last differ (as numbers compare: a NaN
\* differs from everything), the coordinates themselves otherwise.
C21_Ring(coords) ==
    LET first == coords[1]
        last == coords[Len(coords)]
        differ == first # last \/ \E j \in 1..2 : first[j].nan \/ last[j].nan
    IN  IF differ THEN coords \o <<first>> ELSE coords

C21_Layers == {cad.gpkg.i75, cad.gpkg.w84}

\* C21: boundary ring auto-close.  For every group of more than one marker
\* the ring given to the polygon starts and ends with the same vertex; the
\* first vertex is appended exactly when first and last differ, a closed
\* ring is left as it is, and nothing but a copy of the first is added.
C21_RingAutoClose ==
    cad.pc \in {"written", "crashed"} =>
        \A layers \in C21_Layers : \A file \in DOMAIN layers :
            LET row == layers[file].marker
                coords == [k \in 1..Len(row) |-> <<row[k].e, row[k].n>>]
                ring == layers[file].parcel
            IN  Len(row) > 1 =>
                    /\ ring[1] = ring[Len(ring)]
                    /\ ring = C21_Ring(coords)

\* C21 witness: a container written with a group whose ring of four was
\* closed already and left as it was, and a group whose ring of three got
\* its first vertex appended.
C21_Witness ==
    /\ cad.pc = "written"
    /\ \E file \in DOMAIN cad.gpkg.i75 :
          /\ Len(cad.gpkg.i75[file].marker) = 4
          /\ cad.gpkg.i75[file].parcel = [k \in 1..4 |-> <<cad.gpkg.i75[file].marker[k].e,
                                                          cad.gpkg.i75[file].marker[k].n>>]
    /\ \E file \in DOMAIN cad.gpkg.i75 :
          /\ Len(cad.gpkg.i75[file].marker) = 3
          /\ Len(cad.gpkg.i75[file].parcel) = 4


\* A text "<rai>-<ngan>-<wah>" as the conversion gives it: rai a natural,
\* ngan one of 0..3, wah below 100 with one decimal.
C22_IsRaiNganWah(t) ==
    /\ Count(t, "-") = 2
    /\ LET d1 == IndexOf(t, "-", 1)
           d2 == IndexOf(t, "-", d1 + 1)
           rai == SubSeq(t, 1, d1 - 1)
           ngan == SubSeq(t, d1 + 1, d2 - 1)
           wah == SubSeq(t, d2 + 1, Len(t))
       IN  /\ IsDigits(rai)
           /\ ngan \in {<<"0">>, <<"1">>, <<"2">>, <<"3">>}
           /\ Len(wah) \in {3, 4}
           /\ wah[Len(wah) - 1] = "."
           /\ IsDigits(Without(wah, "."))

\* C22: Rai-Ngan-Wah conversion.  The area of a record is reported as
\* "<rai>-<ngan>-<wah>" with rai = floor(area/4/400), ngan = floor of the
\* remainder over 100 and wah the last remainder, below 100, to one decimal.
\* The program converts nothing: both area fields hold the fixed text
\* "rai-ngan-wa".
C22_RaiNganWah ==
    (exPc = "written" /\ toml.written) =>
        /\ C22_IsRaiNganWah(toml.area_grid)
        /\ C22_IsRaiNganWah(toml.area_topo)

\* The vertices written are the unit square, either way round, the first
\* vertex repeated at the end or not.
C23_UnitSquare ==
    /\ toml.written
    /\ Len(toml.marker) \in {4, 5}
    /\ \E reversed \in BOOLEAN : \A i \in 1..Len(toml.marker) :
          LET k == ((i - 1) % 4) + 1
              corner == SquareCorners[IF reversed THEN 5 - k ELSE k]
          IN  /\ toml.marker[i].e = Format3(Dec(corner[1], 0))
              /\ toml.marker[i].n = Format3(Dec(corner[2], 0))

\* C23: shoelace area.  The area computed for a vertex sequence taken as
\* cyclic is that of its reverse and does not depend on the closing
\* duplicate; for the unit square it is 1 (a quarter of a square wah,
\* reported "0-0-0.2").  The program computes no area: the record of the
\* unit square carries the fixed text.
C23_ShoelaceArea ==
    (exPc = "written" /\ C23_UnitSquare) =>
        toml.area_grid = <<"0", "-", "0", "-", "0", ".", "2">>


\* Every saved ROI lies in its image and carries its own extent.
C24_RoiInImage ==
    \A img \in RoiImages :
        LET f == roi.files[img]
        IN  f.written =>
              /\ 0 <= f.original_x_min /\ f.original_x_min <= f.original_x_max
              /\ f.original_x_max <= ImageSize(img).width
              /\ 0 <= f.original_y_min /\ f.original_y_min <= f.original_y_max
              /\ f.original_y_max <= ImageSize(img).height
              /\ f.width = f.original_x_max - f.original_x_min
              /\ f.height = f.original_y_max - f.original_y_min

\* C24: region-of-interest record.  After any sequence of image loads, zoom
\* changes and drags every saved ROI satisfies 0 <= xMin <= xMax <= width
\* and 0 <= yMin <= yMax <= height in pixels of the original image, with
\* width = xMax - xMin and height = yMax - yMin, and a zoom change leaves
\* the stored selection and the saved files as they were.
C24_RoiRecord ==
    /\ []C24_RoiInImage
    /\ [][roi'.last = "scale" => roi'.rect = roi.rect /\ roi'.files = roi.files]_vars

\* C24 witness: an ROI saved from a drag made at scale 1:4 that began left
\* of the image and ended beyond it, the scale changed afterwards.
C24_Witness ==
    /\ roi.last = "scale"
    /\ roi.scale = Scale(2, 1)
    /\ roi.image = "a"
    /\ roi.files["a"].written
    /\ roi.files["a"].scale_factor_at_selection = Scale(1, 4)
    /\ roi.files["a"].original_x_min = 0
    /\ roi.files["a"].original_x_max = 8
    /\ roi.rect = <<0, 0, 8, 4>>


C26_ThreeDecimals(t) ==
    /\ Len(t) >= 5
    /\ t[Len(t) - 3] = "."
    /\ IsDigits(SubSeq(t, 1, Len(t) - 4))
    /\ IsDigits(SubSeq(t, Len(t) - 2, Len(t)))

\* C26: no NaN tuple is written.  Every marker tuple of a raw-stage record
\* has northing and easting as finite numbers of exactly 3 decimals; a row
\* of the table with exactly one coordinate missing or unparseable gives no
\* tuple with a NaN.  The program does not do this: the row passes
\* dropna(how='all'), its missing coordinate is formatted "nan", float("nan")
\* raises nothing in write_toml, and the tuple is written with nan.
C26_NoNanTupleWritten ==
    (exPc = "written") =>
        \A j \in 1..Len(toml.marker) :
            /\ C26_ThreeDecimals(toml.marker[j].n)
            /\ C26_ThreeDecimals(toml.marker[j].e)


\* C27: human edits are never overwritten by the machine stage.  Once the
\* verified-stage file of a document exists it stays, and no load and no
\* extraction changes it: only a save from the editor does.  A file that
\* did not exist appears by a save or by the copy-forward of a load, which
\* so happens at most once per document.
C27_EditsKept ==
    [][\A d \in Docs :
          /\ editFile[d] # NoFile =>
                /\ editFile'[d] # NoFile
                /\ editFile'[d] # editFile[d] =>
                      storeLog'.op = "save" /\ storeLog'.doc = d
          /\ (editFile[d] = NoFile /\ editFile'[d] # NoFile) =>
                \/ storeLog'.op = "save" /\ storeLog'.doc = d
                \/ /\ storeLog'.op = "load" /\ storeLog'.doc = d
                   /\ editFile'[d] = rawFile[d]]_vars

\* C27 witness: a load of a document whose verified-stage file holds the
\* text the user saved, after extraction has written another raw-stage
\* text; the file still holds the user's text.
C27_Witness ==
    /\ storeLog.op = "load"
    /\ storeLog.editPre = <<"a", "b">>
    /\ storeLog.rawPre = <<"b">>
    /\ editFile[storeLog.doc] = <<"a", "b">>
    /\ editText = <<"a", "b">>


\* C28: Edit/Save toggle protocol.  A click while the verification editor
\* is disabled only enables it and writes nothing; a click while it is
\* enabled writes the editor content to the verified-stage file of the
\* current document and disables the editor; a save attempted while the
\* editor is disabled or without a current document fails and leaves the
\* files and the editor as they were; after every load the editor is
\* disabled.
C28_ToggleProtocol ==
    [][/\ (storeLog'.op = "click" /\ editState = "disabled") =>
             /\ editState' = "normal"
             /\ editFile' = editFile /\ rawFile' = rawFile
       /\ (storeLog'.op = "click" /\ editState = "normal") =>
             /\ curDoc = NoDoc
             /\ editState' = editState
             /\ editFile' = editFile /\ rawFile' = rawFile
       /\ storeLog'.op = "save" =>
             /\ editState = "normal" /\ curDoc # NoDoc
             /\ editFile' = [editFile EXCEPT ![curDoc] = GetContent(editText)]
             /\ editState' = "disabled"
             /\ rawFile' = rawFile
       /\ storeLog'.op = "save_failed" =>
             /\ editState = "disabled" \/ curDoc = NoDoc
             /\ editState' = editState
             /\ editFile' = editFile /\ rawFile' = rawFile
       /\ storeLog'.op = "load" => editState' = "disabled"]_vars

\* C28 witness: a save of the typed text into a file that held the text
\* copied forward, the editor disabled again.
C28_Witness ==
    /\ storeLog.op = "save" /\ storeLog.doc = "p01"
    /\ storeLog.editPre = <<"a">>
    /\ editFile["p01"] = <<"b">>
    /\ editText = <<"b", "\n">>
    /\ editState = "disabled"


\* The integers the range text writes: one, or two around a comma, or
\* none when the text is no such range.
C29_Range(t) ==
    LET parts == SplitComma(t)
    IN  IF Len(parts) = 1 /\ PyInt(parts[1]).ok
        THEN [ok |-> TRUE, start |-> PyInt(parts[1]).v, end |-> PyInt(parts[1]).v]
        ELSE IF Len(parts) = 2 /\ PyInt(parts[1]).ok /\ PyInt(parts[2]).ok
        THEN [ok |-> TRUE, start |-> PyInt(parts[1]).v, end |-> PyInt(parts[2]).v]
        ELSE [ok |-> FALSE, start |-> 0, end |-> 0]

\* C29: image range filter.  For n images and a range 'start,end' (a single
\* number is start = end) the result is exactly the images at the 1-based
\* positions max(start,1) .. min(end,n) in their order, empty when that
\* interval is empty; no range gives all images; a range that is not one or
\* two integers ends the program with exit status 1.
C29_ImageRangeFilter ==
    rng.pc = "done" =>
        LET n == Len(rng.images)
            r == C29_Range(rng.range)
            lo == IF r.start > 1 THEN r.start ELSE 1
            hi == IF r.end < n THEN r.end ELSE n
        IN  IF rng.range \in {NoRange, <<>>}
            THEN rng.res.exit = 0 /\ rng.res.out = rng.images
            ELSE IF ~r.ok THEN rng.res.exit = 1
            ELSE /\ rng.res.exit = 0
                 /\ Len(rng.res.out) = (IF hi >= lo THEN hi - lo + 1 ELSE 0)
                 /\ \A k \in 1..Len(rng.res.out) : rng.res.out[k] = rng.images[lo + k - 1]

\* C29 witness: the range "-1,3" over three images gave all three, the
\* start clamped to 1.
C29_Witness ==
    /\ rng.pc = "done"
    /\ rng.range = <<"-", "1", ",", "3">>
    /\ rng.res = RangeOut(<<1, 2, 3>>)

\* The entries of a verified-stage file that can be loaded: none of an
\* unreadable file or of a file without a marker list, else the entries of
\* 5 elements or more whose northing and easting are numeric, in their order.
C30_Entries(data) ==
    LET Loadable(entry) ==
            entry.len >= 5 /\ ~FloatRaises(entry.n) /\ ~FloatRaises(entry.e)
    IN  IF data.kind = "toml" /\ data.deed THEN SelectSeq(data.marker, Loadable) ELSE <<>>

\* The rows of a loaded table that came from one file, in their order.
C30_RowsOf(table, p) ==
    LET From(row) == row.path = p
    IN  SelectSeq(table, From)

\* C30: marker loading skips bad units and continues.  A loaded table holds,
\* file after file, exactly the loadable entries of every verified-stage
\* file in their order, and the load fails as a whole only when no
\* verified-stage file is found or when no marker at all was loaded.
C30_SkipsBadUnits ==
    LET files == TomlFiles(cad.folder)
        short == Len(RV25JConfig(cad.cfg).toml_spec) < 5
    IN  /\ cad.pc = "failed" =>
              \/ cad.err = "FileNotFoundError" /\ files = {}
              \/ /\ cad.err = "RuntimeError"
                 /\ files # {}
                 /\ short \/ \A p \in files : C30_Entries(cad.folder[p]) = <<>>
        /\ cad.pc \in {"loaded", "written", "crashed"} =>
              /\ \A k \in 1..Len(cad.df) : cad.df[k].path \in files
              /\ \A k \in 2..Len(cad.df) :
                    cad.df[k].path # cad.df[k - 1].path =>
                        \A j \in k..Len(cad.df) : cad.df[j].path # cad.df[k - 1].path
              /\ \A p \in files :
                    LET rows == C30_RowsOf(cad.df, p)
                        kept == C30_Entries(cad.folder[p])
                    IN  /\ Len(rows) = Len(kept)
                        /\ \A k \in 1..Len(rows) :
                              /\ rows[k].idx = kept[k].idx
                              /\ rows[k].label = kept[k].label
                              /\ rows[k].name = kept[k].name
                              /\ rows[k].n = PyFloat(kept[k].n)
                              /\ rows[k].e = PyFloat(kept[k].e)

\* The load ended in the ValueError of int(epsg) although another
\* verified-stage file of the folder holds loadable markers.
C30_EpsgStopsLoad ==
    /\ cad.pc = "failed"
    /\ cad.err = "ValueError"
    /\ \E p \in TomlFiles(cad.folder) :
          /\ ~EpsgRaises(cad.folder[p])
          /\ C30_Entries(cad.folder[p]) # <<>>

\* Bad units were skipped in a load that went on: the folder holds an
\* unreadable file and a file with a short and a non-numeric entry, and the
\* table holds the three loadable entries of the latter.
C30_Skipped ==
    /\ cad.pc = "loaded"
    /\ \E p \in TomlFiles(cad.folder) : cad.folder[p] = BadToml
    /\ \E p \in TomlFiles(cad.folder) :
          /\ Len(cad.folder[p].marker) = 5
          /\ Len(C30_RowsOf(cad.df, p)) = 3

====
